---- MODULE Spec2Model ----
(***************************************************************************)
(* quickconfig: BaseConfig (a subconfig with a locked/frozen attribute     *)
(* gate), MainBase (the root configuration and its build pipeline) and the *)
(* example schema of src/example.                                          *)
(*                                                                         *)
(* Python values are records [t, s, n]: a type tag, a string payload and a *)
(* numeric payload.  Floats are counted in units of 1e-9, so that the      *)
(* bounds of the example's learning-rate predicate are the integers 1 and  *)
(* 10^7.  Python strings are atomic here; every substring test, split and  *)
(* parse the code performs is a table over the strings of the model.       *)
(***************************************************************************)
EXTENDS Integers, Sequences, FiniteSets, TLC

VARIABLES
    pc,               \* position of build(): "start" ... "done" / "failed"; "standalone" for a free BaseConfig
    argv,             \* sys.argv[1:], a sequence of tokens
    cmd_args,         \* build's working token list
    cmd_i,            \* position of the loop of __override_with_cmdline_args in cmd_args
    todo,             \* the (subconfig, argument, value) passes an override loop has still to make
    dont_save,        \* build's argument, kept in _MainBase__dont_save
    save_dir,         \* build's local save_dir (a string)
    experiment_name,  \* build's local experiment_name (a string)
    decl,             \* the root's declared subconfig classes: name -> class name
    subconfigs,       \* _MainBase__subconfigs, a sequence of names
    cfgs,             \* the BaseConfig instances: name -> instance
    rootd,            \* the root's other instance attributes: name -> root value
    eval_mode,        \* _MainBase__eval
    disk,             \* directories below the experiment directory
    saved,            \* what __save_configs wrote
    printed,          \* whether the usage listing was printed
    err,              \* the exception that ended build, "" when none
    last,             \* the outcome of the last user-level call
    exported,         \* what the to_dict calls of the caller returned
    procs,            \* the processes inside the allocator: where each is, what it holds
    exp_dir           \* whether the experiment directory exists

vars ==
    <<pc, argv, cmd_args, cmd_i, todo, dont_save, save_dir, experiment_name, decl,
      subconfigs, cfgs, rootd, eval_mode, disk, saved, printed, err, last,
      exported, procs, exp_dir>>

-----------------------------------------------------------------------------
(* Values *)

Str(x) ==
    [t |-> "str", s |-> x, n |-> 0]

Bool(b) ==
    [t |-> "bool", s |-> "", n |-> IF b THEN 1 ELSE 0]

Float(k) ==
    [t |-> "float", s |-> "", n |-> k]

None ==
    [t |-> "none", s |-> "", n |-> 0]

EmptyList ==
    [t |-> "list", s |-> "", n |-> 0]

\* Python truthiness of a value (bool(x), `if x`).
Truthy(v) ==
    CASE v.t = "str" -> v.s # ""
      [] v.t = "bool" -> v.n = 1
      [] v.t = "float" -> v.n # 0
      [] OTHER -> FALSE

\* isinstance(default, type) for the types str, bool and float.
IsInstance(v, ty) ==
    v.t = ty

\* `default is not None and default != "none"`: the value is no none sentinel.
NotNoneSentinel(v) ==
    v # None /\ v # Str("none")

EmptyFn ==
    [x \in {} |-> None]

\* The element of a one-element set: {F(r) : r \in {e}} evaluates e once.
The(S) ==
    CHOOSE x \in S : TRUE

Put(f, k, v) ==
    [x \in (DOMAIN f) \cup {k} |-> IF x = k THEN v ELSE f[x]]

-----------------------------------------------------------------------------
(* Strings: the tables that stand for substring tests, parsing and printing *)

\* float(s) succeeds on these strings.
FloatStrings ==
    {"1e-8", "1e-4", "1e-2", "1.0000001e-2", "2"}

\* float(s), in units of 1e-9.
ParseFloat(s) ==
    CASE s = "1e-8" -> 10
      [] s = "1e-4" -> 100000
      [] s = "1e-2" -> 10000000
      [] s = "1.0000001e-2" -> 10000001
      [] s = "2" -> 2000000000
      [] OTHER -> 0

\* str(x) of a float of the model.
FloatRepr(k) ==
    CASE k = 10 -> "1e-08"
      [] k = 100000 -> "0.0001"
      [] k = 1000000 -> "0.001"
      [] k = 10000000 -> "0.01"
      [] k = 0 -> "0.0"
      [] k = 1000000000 -> "1.0"
      [] OTHER -> "float"

\* `key in s` for a key and a string s of the model: no attribute name of the
\* model occurs inside a value string, except a string equal to it.
StrContains(s, key) ==
    s = key

-----------------------------------------------------------------------------
(* Validation predicates of src/example *)

\* The predicate raises instead of answering (a str compared with a float).
ValidationRaises(pred, v) ==
    pred = "lr_range" /\ v.t \notin {"float", "bool"}

\* validation(v): None is "none"; the two lambdas of the example schema.
Validate(pred, v) ==
    CASE pred = "model_type_in" -> v \in {Str("retinanet"), Str("patch")}
      [] pred = "lr_range" -> v.n >= 1 /\ v.n <= 10000000
      [] OTHER -> TRUE

-----------------------------------------------------------------------------
(* BaseConfig *)

ReservedAttributes ==
    {"arg_dict", "help_dict", "locked", "frozen", "add_argument", "to_dict",
     "reserved_attributes"}

\* Names every BaseConfig instance answers to through its class.
ClassAttributes ==
    {"locked", "frozen", "reserved_attributes", "add_argument", "to_dict",
     "__class__", "__init__", "__setattr__"}

\* BaseConfig.__init__: d is the instance dictionary of plain values;
\* arg_dict and help_dict are the two dictionaries __init__ stores (a plain
\* value stored under one of these names in d shadows the dictionary).
NewBaseConfig ==
    [d |-> EmptyFn, arg_dict |-> EmptyFn, help_dict |-> EmptyFn]

\* self.locked: the instance attribute, else the class default False.
Locked(o) ==
    IF "locked" \in DOMAIN o.d THEN Truthy(o.d["locked"]) ELSE FALSE

\* self.frozen: the instance attribute, else the class default False.
Frozen(o) ==
    IF "frozen" \in DOMAIN o.d THEN Truthy(o.d["frozen"]) ELSE FALSE

\* hasattr(self, key)
HasAttr(o, key) ==
    key \in (DOMAIN o.d) \cup {"arg_dict", "help_dict"} \cup ClassAttributes

\* dir(subcfg)
Dir(o) ==
    (DOMAIN o.d) \cup {"arg_dict", "help_dict"} \cup ClassAttributes

\* `key in self.reserved_attributes` raises when the attribute was rebound
\* to a value that is no container.
ReservedTestRaises(o) ==
    /\ "reserved_attributes" \in DOMAIN o.d
    /\ o.d["reserved_attributes"].t \notin {"list", "str"}

\* `key in self.reserved_attributes`: the instance attribute when one was
\* stored, else the class list.
InReserved(o, key) ==
    IF "reserved_attributes" \in DOMAIN o.d
    THEN /\ o.d["reserved_attributes"].t = "str"
         /\ StrContains(o.d["reserved_attributes"].s, key)
    ELSE key \in ReservedAttributes

\* A __setattr__ whose frozen test (lines 76-79) is missing.
SetAttrErrorNoFrozenTest(o, key) ==
    IF ReservedTestRaises(o) THEN "TypeError"
    ELSE IF InReserved(o, key) /\ Locked(o) /\ key # "frozen" THEN "ReservedNameError"
    ELSE IF Locked(o) /\ ~HasAttr(o, key) THEN "LockedConfigError"
    ELSE ""

\* A __setattr__ whose test for new names (lines 80-81) is missing.
SetAttrErrorNoLockedTest(o, key) ==
    IF ReservedTestRaises(o) THEN "TypeError"
    ELSE IF InReserved(o, key) /\ Locked(o) /\ key # "frozen" THEN "ReservedNameError"
    ELSE IF Frozen(o) THEN "FrozenConfigError"
    ELSE ""

\* The error of BaseConfig.__setattr__(key, value), "" when it stores.
SetAttrError(o, key) ==
    IF ReservedTestRaises(o) THEN "TypeError"
    ELSE IF InReserved(o, key) /\ Locked(o) /\ key # "frozen" THEN "ReservedNameError"
    ELSE IF Frozen(o) THEN "FrozenConfigError"
    ELSE IF Locked(o) /\ ~HasAttr(o, key) THEN "LockedConfigError"
    ELSE ""

\* BaseConfig.__setattr__: the instance after the call and the error raised.
SetAttr(o, key, value) ==
    LET e == SetAttrError(o, key)
    IN  IF e # ""
        THEN [obj |-> o, err |-> e]
        ELSE [obj |-> [o EXCEPT !.d = Put(o.d, key, value)], err |-> ""]

Descriptor(ty, validation) ==
    [type |-> ty, validation |-> validation]

\* The None that __override_individual_subconfig stores in arg_dict.
NoDescriptor ==
    [type |-> "NONE", validation |-> "NONE"]

\* BaseConfig.add_argument, statement by statement: an exception keeps what
\* the statements before it stored.
AddArgument(o, name, ty, default, help, validation) ==
    IF "add_argument" \in DOMAIN o.d
    THEN [obj |-> o, err |-> "TypeError"]
    ELSE IF ~IsInstance(default, ty) /\ NotNoneSentinel(default)
    THEN [obj |-> o, err |-> "TypeConflict"]
    ELSE IF validation # "none" /\ NotNoneSentinel(default) /\ ValidationRaises(validation, default)
    THEN [obj |-> o, err |-> "TypeError"]
    ELSE IF validation # "none" /\ NotNoneSentinel(default) /\ ~Validate(validation, default)
    THEN [obj |-> o, err |-> "ValidationConflict"]
    ELSE LET r == SetAttr(o, name, default)
             o1 == r.obj
             o2 == [o1 EXCEPT !.arg_dict = Put(o1.arg_dict, name, Descriptor(ty, validation))]
             o3 == [o2 EXCEPT !.help_dict = Put(o2.help_dict, name, help)]
         IN  IF r.err # "" THEN [obj |-> o, err |-> r.err]
             ELSE IF "arg_dict" \in DOMAIN o1.d THEN [obj |-> o1, err |-> "TypeError"]
             ELSE IF "help_dict" \in DOMAIN o2.d THEN [obj |-> o2, err |-> "TypeError"]
             ELSE [obj |-> o3, err |-> ""]

\* BaseConfig.to_dict: every key of arg_dict with the attribute's value.
\* "raises" when the call cannot complete.
ToDictRaises(o) ==
    \/ "to_dict" \in DOMAIN o.d
    \/ "arg_dict" \in DOMAIN o.d
    \/ \E k \in DOMAIN o.arg_dict : k \notin DOMAIN o.d

ToDict(o) ==
    [k \in DOMAIN o.arg_dict |-> IF k \in DOMAIN o.d THEN o.d[k] ELSE None]

-----------------------------------------------------------------------------
(* The schema of src/example, and the evaluation schema the checkpoint     *)
(* step of MainBase looks for                                              *)

Arg(name, ty, default, help, validation) ==
    [name |-> name, type |-> ty, default |-> default, help |-> help,
     validation |-> validation]

\* The add_argument calls of each subconfig class's __init__, in order.
ClassArgs(cls) ==
    CASE cls = "ModelConfig" ->
           <<Arg("model_type", "str", Str("retinanet"), "The type of model to use",
                 "model_type_in")>>
      [] cls = "TrainingConfig" ->
           <<Arg("dataset_to_use", "str", Str("default"),
                 "Which dataset do we want to use?", "none"),
             Arg("use_mlflow_logger", "bool", Bool(FALSE), "Should we log with mlflow?",
                 "none"),
             Arg("lr", "float", Float(1000000), "This is a mock integer arg", "lr_range")>>
      [] cls = "EvaluationConfig" ->
           <<Arg("checkpoint", "str", Str("runs_a/model.pt"), "checkpoint", "none")>>
      [] OTHER -> <<>>

\* MainConfig.__init__: the class attributes naming the subconfig classes.
MainConfig ==
    [x \in {"model", "training"} |->
        IF x = "model" THEN "ModelConfig" ELSE "TrainingConfig"]

\* A root whose only subconfig is "evaluation" (main_base.py line 74).
EvalMainConfig ==
    [x \in {"evaluation"} |-> "EvaluationConfig"]

RECURSIVE RunInit(_, _, _)
\* The add_argument calls i.. of a class, applied to the instance o.
RunInit(o, args, i) ==
    IF i > Len(args) THEN [obj |-> o, err |-> ""]
    ELSE LET a == args[i]
             Rest(r) == IF r.err # "" THEN r ELSE RunInit(r.obj, args, i + 1)
         IN  The({Rest(r) : r \in {AddArgument(o, a.name, a.type, a.default, a.help,
                                                a.validation)}})

\* A val() that runs BaseConfig.__init__ alone.
InstantiateBase(cls) ==
    [obj |-> NewBaseConfig, err |-> ""]

\* val(): BaseConfig.__init__ and then the subclass's add_argument calls.
Instantiate(cls) ==
    RunInit(NewBaseConfig, ClassArgs(cls), 1)

-----------------------------------------------------------------------------
(* Command-line tokens.  A token is the text before its first "=", split   *)
(* at the dots, whether it has an "=", and the text after the "=".         *)

Tok(name, v) ==
    [name |-> name, eq |-> TRUE, val |-> v]

Flag(w) ==
    [name |-> <<w>>, eq |-> FALSE, val |-> ""]

\* `sub in w` for the words of the model.
WordContains(w, sub) ==
    CASE sub = "save_dir" -> w \in {"save_dir", "save_dir_data"}
      [] sub = "experiment_name" -> w \in {"experiment_name"}
      [] OTHER -> w = sub

\* `sub in arg` for a substring without "." and "=": it lies in one word.
TokContains(tok, sub) ==
    \/ \E i \in 1..Len(tok.name) : WordContains(tok.name[i], sub)
    \/ tok.eq /\ WordContains(tok.val, sub)

\* arg.rsplit("=", 1)[-1]
AfterLastEq(tok) ==
    IF tok.eq THEN tok.val ELSE tok.name[1]

\* `"config=" in arg`
HasConfigEq(tok) ==
    tok.eq /\ tok.name[Len(tok.name)] = "config"

TrainTokens ==
    {Tok(<<"config">>, "filebased_config.json"),
     Tok(<<"config">>, "unknown_subconfig.json"),
     Tok(<<"config">>, "subconfigs_defined_by_path.json"),
     Tok(<<"config">>, "bad_values.json"),
     Tok(<<"config">>, "out_of_range.json"),
     Tok(<<"config">>, "missing.json"),
     Tok(<<"training", "lr">>, "1e-8"),
     Tok(<<"training", "lr">>, "1e-2"),
     Tok(<<"training", "lr">>, "1.0000001e-2"),
     Tok(<<"training", "lr">>, "learning_rate"),
     Tok(<<"model", "model_type">>, "patch"),
     Tok(<<"model", "model_type">>, "bad_model_type"),
     Tok(<<"training", "dataset_to_use">>, "imagenet"),
     Tok(<<"training", "dataset_to_use">>, "save_dir_data"),
     Tok(<<"training", "use_mlflow_logger">>, "False"),
     Tok(<<"model">>, "model_2.json"),
     Tok(<<"training">>, "training_2.json"),
     Tok(<<"model", "not_an_arg">>, "x"),
     Tok(<<"model", "to_dict">>, "x"),
     Tok(<<"optimizer", "lr">>, "1e-4"),
     Tok(<<"optimizer">>, "model_2.json"),
     Tok(<<"save_dir">>, "my_results"),
     Tok(<<"experiment_name">>, "my_first_experiment"),
     Flag("--h"),
     Flag("--help")}

EvalTokens ==
    {Tok(<<"config">>, "eval_config.json"),
     Tok(<<"config">>, "filebased_config.json"),
     Tok(<<"evaluation", "checkpoint">>, "runs_b/model.pt"),
     Tok(<<"evaluation", "checkpoint">>, "nowhere/model.pt"),
     Tok(<<"model", "model_type">>, "retinanet"),
     Tok(<<"save_dir">>, "my_results"),
     Tok(<<"save_dir">>, "results"),
     Flag("--h")}

TokensFor(d) ==
    IF "evaluation" \in DOMAIN d THEN EvalTokens ELSE TrainTokens

-----------------------------------------------------------------------------
(* Files.  A config file is a sequence of top-level entries, each a        *)
(* subconfig name with an object (a sequence of key/value pairs) or a      *)
(* string; a subconfig file is one such object.                            *)

KV(k, v) ==
    [k |-> k, v |-> v]

Inline(key, body) ==
    [key |-> key, isStr |-> FALSE, path |-> "", body |-> body]

ByPath(key, path) ==
    [key |-> key, isStr |-> TRUE, path |-> path, body |-> <<>>]

\* The subconfig files open() finds.
SubFiles ==
    {"model_1.json", "model_2.json", "training_1.json", "training_2.json"}

\* The config files open() finds.
TopFiles ==
    {"filebased_config.json", "unknown_subconfig.json",
     "subconfigs_defined_by_path.json", "bad_values.json", "out_of_range.json",
     "eval_config.json",
     "runs_a/config.json", "runs_b/config.json"}

\* json.load of a subconfig file.
FileBody(path) ==
    CASE path = "model_1.json" -> <<KV("model_type", Str("patch"))>>
      [] path = "model_2.json" -> <<KV("model_type", Str("retinanet"))>>
      [] path = "training_1.json" ->
           <<KV("dataset_to_use", Str("rayleigh_dataset")), KV("lr", Float(100000))>>
      [] path = "training_2.json" -> <<KV("lr", Float(10))>>
      [] OTHER -> <<>>

\* json.load of a config file.
FileTop(path) ==
    CASE path = "filebased_config.json" ->
           <<Inline("model", <<KV("model_type", Str("patch"))>>),
             Inline("training",
                    <<KV("dataset_to_use", Str("rayleigh_dataset")),
                      KV("lr", Float(100000))>>)>>
      [] path = "unknown_subconfig.json" ->
           <<Inline("model", <<KV("model_type", Str("patch"))>>),
             Inline("optimizer", <<KV("lr", Float(100000))>>)>>
      [] path = "subconfigs_defined_by_path.json" ->
           <<ByPath("model", "model_1.json"), ByPath("training", "training_1.json")>>
      [] path = "bad_values.json" ->
           <<Inline("training",
                    <<KV("dataset_to_use", Str("rayleigh_dataset")),
                      KV("lr", Str("learning_rate"))>>),
             Inline("model", <<KV("model_type", Str("patch"))>>)>>
      [] path = "out_of_range.json" ->
           <<Inline("training", <<KV("lr", Float(2000000000))>>)>>
      [] path = "eval_config.json" ->
           <<Inline("evaluation", <<KV("checkpoint", Str("runs_b/model.pt"))>>)>>
      [] path = "runs_a/config.json" ->
           <<Inline("model", <<KV("model_type", Str("patch"))>>),
             Inline("training",
                    <<KV("dataset_to_use", Str("rayleigh_dataset")),
                      KV("use_mlflow_logger", Bool(FALSE)),
                      KV("lr", Float(100000))>>)>>
      [] path = "runs_b/config.json" ->
           <<Inline("model", <<KV("model_type", Str("retinanet"))>>),
             Inline("training",
                    <<KV("dataset_to_use", Str("default")),
                      KV("use_mlflow_logger", Bool(TRUE)),
                      KV("lr", Float(10))>>)>>
      [] OTHER -> <<>>

\* config_path.rsplit("/", 1)[0] joined with "config.json".
CheckpointConfigPath(s) ==
    CASE s = "runs_a/model.pt" -> "runs_a/config.json"
      [] s = "runs_b/model.pt" -> "runs_b/config.json"
      [] s = "nowhere/model.pt" -> "nowhere/config.json"
      [] OTHER -> "config.json"

\* An entry left as the config file holds it.
LoadEntryKeep(e) ==
    e

\* One entry of __load_subconfigs_from_filepath: a string naming a file
\* that loads is replaced by the file's object; any failure keeps the value.
LoadEntry(e) ==
    IF e.isStr /\ e.path \in SubFiles THEN Inline(e.key, FileBody(e.path)) ELSE e

LoadSubconfigsFromFilepath(config) ==
    [i \in 1..Len(config) |-> LoadEntry(config[i])]

-----------------------------------------------------------------------------
(* MainBase: the steps of build() *)

\* The names dir(self) lists in sorted order.
NameOrder ==
    <<"evaluation", "model", "optimizer", "training">>

\* dir(self) filtered as __set_defaults filters it: the root's own
\* attributes that are neither private nor reserved, in dir's order.
DeclaredNames(d) ==
    LET Declared(x) == x \in DOMAIN d
    IN  SelectSeq(NameOrder, Declared)

InSeq(x, q) ==
    \E i \in 1..Len(q) : q[i] = x

RECURSIVE ScanSaveDir(_, _, _)
\* The loop of __set_save_dir_experiment_name over the tokens i..:
\* acc holds new_args and the two tokens kept so far.
ScanSaveDir(args, i, acc) ==
    IF i > Len(args) THEN acc
    ELSE IF TokContains(args[i], "save_dir")
    THEN ScanSaveDir(args, i + 1, [acc EXCEPT !.sd = args[i], !.sdset = TRUE])
    ELSE IF TokContains(args[i], "experiment_name")
    THEN ScanSaveDir(args, i + 1, [acc EXCEPT !.en = args[i], !.enset = TRUE])
    ELSE ScanSaveDir(args, i + 1, [acc EXCEPT !.new_args = Append(@, args[i])])

\* __set_save_dir_experiment_name: new_args, save_dir, experiment_name.
SetSaveDirExperimentNameResult(args) ==
    LET acc == ScanSaveDir(args, 1,
                   [new_args |-> <<>>, sd |-> Flag(""), sdset |-> FALSE,
                    en |-> Flag(""), enset |-> FALSE])
    IN  [new_args |-> acc.new_args,
         save_dir |-> IF acc.sdset THEN AfterLastEq(acc.sd) ELSE "results",
         experiment_name |-> IF acc.enset THEN AfterLastEq(acc.en) ELSE "today"]

RECURSIVE RealizeDefaults(_, _, _, _)
\* The loop of __set_defaults over the names i..: instantiate, then lock.
RealizeDefaults(d, names, i, cs) ==
    IF i > Len(names) THEN [cfgs |-> cs, err |-> ""]
    ELSE LET Lock(made, lock) ==
                 IF made.err # "" THEN [cfgs |-> cs, err |-> made.err]
                 ELSE IF lock.err # ""
                 THEN [cfgs |-> Put(cs, names[i], made.obj), err |-> lock.err]
                 ELSE RealizeDefaults(d, names, i + 1, Put(cs, names[i], lock.obj))
             Make(made) ==
                 The({Lock(made, lock) : lock \in {SetAttr(made.obj, "locked", Bool(TRUE))}})
         IN  The({Make(made) : made \in {Instantiate(d[names[i]])}})

RECURSIVE RemoveFirst(_, _)
\* list.remove(x)
RemoveFirst(q, x) ==
    IF q = <<>> THEN <<>>
    ELSE IF Head(q) = x THEN Tail(q)
    ELSE <<Head(q)>> \o RemoveFirst(Tail(q), x)

\* __display_help: the token list it returns.
DisplayHelpArgs(args) ==
    IF InSeq(Flag("--h"), args) THEN RemoveFirst(args, Flag("--h"))
    ELSE IF InSeq(Flag("--help"), args) THEN RemoveFirst(args, Flag("--help"))
    ELSE args

RECURSIVE LastConfigPath(_, _, _)
\* __determine_config_path: the last token holding "config=" decides.
LastConfigPath(args, i, path) ==
    IF i > Len(args) THEN path
    ELSE LastConfigPath(args, i + 1, IF HasConfigEq(args[i]) THEN args[i].val ELSE path)

DetermineConfigPath(args) ==
    LastConfigPath(args, 1, "")

\* An __assure_no_additional_keys that accepts every key.
AssureNothing(config, subs) ==
    ""

\* The error of __assure_no_additional_keys, "" when every key is known.
AssureNoAdditionalKeys(config, subs) ==
    IF \E i \in 1..Len(config) : ~InSeq(config[i].key, subs)
    THEN "UnknownSubconfigError" ELSE ""

\* desired_type(val) raises.
CoerceFails(ty, v) ==
    /\ ty = "float"
    /\ \/ (v.t = "str" /\ v.s \notin FloatStrings)
       \/ v.t \in {"none", "list"}

\* A conversion that hands the value back as it came.
CoerceKeep(ty, v) ==
    v

\* desired_type(val): str(), float() and bool() of a value.
Coerce(ty, v) ==
    CASE ty = "str" ->
           (CASE v.t = "str" -> v
              [] v.t = "float" -> Str(FloatRepr(v.n))
              [] v.t = "bool" -> Str(IF v.n = 1 THEN "True" ELSE "False")
              [] v.t = "none" -> Str("None")
              [] OTHER -> Str("[]"))
      [] ty = "float" ->
           (CASE v.t = "str" -> Float(ParseFloat(v.s))
              [] v.t = "bool" -> Float(v.n * 1000000000)
              [] OTHER -> v)
      [] ty = "bool" -> Bool(Truthy(v))
      [] OTHER -> v

\* A __validate_arg that coerces and never asks the validation predicate.
ValidateArgCoerceOnly(o, arg_name, val) ==
    IF "arg_dict" \in DOMAIN o.d THEN [val |-> val, err |-> "TypeError"]
    ELSE IF arg_name \notin DOMAIN o.arg_dict THEN [val |-> val, err |-> "KeyError"]
    ELSE LET desc == o.arg_dict[arg_name]
         IN  IF desc = NoDescriptor THEN [val |-> val, err |-> "TypeError"]
             ELSE IF CoerceFails(desc.type, val)
             THEN [val |-> val, err |-> "TypeCoercionError"]
             ELSE [val |-> Coerce(desc.type, val), err |-> ""]

\* __validate_arg: the coerced value, or the error raised.
ValidateArg(o, arg_name, val) ==
    IF "arg_dict" \in DOMAIN o.d THEN [val |-> val, err |-> "TypeError"]
    ELSE IF arg_name \notin DOMAIN o.arg_dict THEN [val |-> val, err |-> "KeyError"]
    ELSE LET desc == o.arg_dict[arg_name]
             v == Coerce(desc.type, val)
         IN  IF desc = NoDescriptor THEN [val |-> val, err |-> "TypeError"]
             ELSE IF CoerceFails(desc.type, val)
             THEN [val |-> val, err |-> "TypeCoercionError"]
             ELSE IF desc.validation # "none" /\ ValidationRaises(desc.validation, v)
             THEN [val |-> v, err |-> "TypeError"]
             ELSE IF desc.validation # "none" /\ ~Validate(desc.validation, v)
             THEN [val |-> v, err |-> "ValidationError"]
             ELSE [val |-> v, err |-> ""]

\* setattr(subcfg, arg_name, val) on the subconfig named sub.
StoreArg(cs, sub, o, arg_name, val) ==
    LET r == SetAttr(o, arg_name, val)
    IN  [cfgs |-> [cs EXCEPT ![sub] = r.obj], err |-> r.err]

\* One pass of the loop of __override_individual_subconfig.
OverrideOne(cs, sub, arg_name, val, assure_in_dir) ==
    IF sub \notin DOMAIN cs THEN [cfgs |-> cs, err |-> "AttributeError"]
    ELSE LET o == cs[sub]
             v == ValidateArg(o, arg_name, val)
             o1 == [o EXCEPT !.arg_dict = Put(o.arg_dict, arg_name, NoDescriptor)]
         IN  IF assure_in_dir
             THEN IF arg_name \notin Dir(o)
                  THEN [cfgs |-> cs, err |-> "UnknownArgumentError"]
                  ELSE IF v.err # "" THEN [cfgs |-> cs, err |-> v.err]
                  ELSE StoreArg(cs, sub, o, arg_name, v.val)
             ELSE StoreArg(cs, sub, o1, arg_name, val)

\* The passes __override_individual_subconfig makes over an object, in order.
SubconfigItems(sub, body, assure_in_dir) ==
    [i \in 1..Len(body) |->
        [subcfg_name |-> sub, arg_name |-> body[i].k, val |-> body[i].v,
         assure_in_dir |-> assure_in_dir, isStr |-> FALSE]]

\* The passes for one entry of a config; an entry that is still a string
\* has no items().
EntryItems(e, assure_in_dir) ==
    IF e.isStr
    THEN <<[subcfg_name |-> e.key, arg_name |-> "", val |-> None,
            assure_in_dir |-> assure_in_dir, isStr |-> TRUE]>>
    ELSE SubconfigItems(e.key, e.body, assure_in_dir)

RECURSIVE ConfigItems(_, _, _)
\* The passes __override_with_filebased_args makes over the entries i.. of a
\* config, in order.
ConfigItems(config, i, assure_in_dir) ==
    IF i > Len(config) THEN <<>>
    ELSE EntryItems(config[i], assure_in_dir) \o ConfigItems(config, i + 1, assure_in_dir)

\* One pass of the nested loops of __override_with_filebased_args.
OverrideItem(cs, item) ==
    IF item.isStr THEN [cfgs |-> cs, err |-> "AttributeError"]
    ELSE OverrideOne(cs, item.subcfg_name, item.arg_name, item.val, item.assure_in_dir)

\* __override_defaults, lines 233-241: the passes the config file asks for.
LoadConfig(args, subs) ==
    LET config_path == DetermineConfigPath(args)
        config == LoadSubconfigsFromFilepath(FileTop(config_path))
    IN  IF config_path = "" THEN [todo |-> <<>>, err |-> ""]
        ELSE IF config_path \notin TopFiles THEN [todo |-> <<>>, err |-> "FileNotFoundError"]
        ELSE IF AssureNoAdditionalKeys(config, subs) # ""
        THEN [todo |-> <<>>, err |-> AssureNoAdditionalKeys(config, subs)]
        ELSE [todo |-> ConfigItems(config, 1, TRUE), err |-> ""]

\* One pass of the loop of __override_with_cmdline_args: a subconfig-wide
\* token leaves the passes over its file to __override_individual_subconfig.
CmdlineOne(cs, tok, subs) ==
    IF ~tok.eq THEN [cfgs |-> cs, todo |-> <<>>, err |-> "ValueError"]
    ELSE IF tok.name = <<"config">> THEN [cfgs |-> cs, todo |-> <<>>, err |-> ""]
    ELSE IF Len(tok.name) = 1
    THEN IF InSeq(tok.name[1], subs)
         THEN IF tok.val \notin SubFiles
              THEN [cfgs |-> cs, todo |-> <<>>, err |-> "FileNotFoundError"]
              ELSE [cfgs |-> cs, err |-> "",
                    todo |-> SubconfigItems(tok.name[1], FileBody(tok.val), TRUE)]
         ELSE [cfgs |-> cs, todo |-> <<>>, err |-> "InvalidArgumentNameError"]
    ELSE IF Len(tok.name) # 2 THEN [cfgs |-> cs, todo |-> <<>>, err |-> "ValueError"]
    ELSE IF tok.name[1] \notin DOMAIN cs
    THEN [cfgs |-> cs, todo |-> <<>>, err |-> "AttributeError"]
    ELSE LET o == cs[tok.name[1]]
             v == ValidateArg(o, tok.name[2], Str(tok.val))
             r == StoreArg(cs, tok.name[1], o, tok.name[2], v.val)
         IN  IF tok.name[2] \notin Dir(o)
             THEN [cfgs |-> cs, todo |-> <<>>, err |-> "UnknownArgumentError"]
             ELSE IF v.err # "" THEN [cfgs |-> cs, todo |-> <<>>, err |-> v.err]
             ELSE [cfgs |-> r.cfgs, todo |-> <<>>, err |-> r.err]

RECURSIVE AttachNew(_, _, _)
\* setattr(self, k, BaseConfig()) for the keys i.. of the checkpoint's config.
AttachNew(cs, config, i) ==
    IF i > Len(config) THEN cs
    ELSE AttachNew(Put(cs, config[i].key, NewBaseConfig), config, i + 1)

\* __load_checkpoint_config_if_indicated, lines 75-84: the subconfigs it
\* attaches and the passes the checkpoint's config asks for.
LoadCheckpoint(cs, subs) ==
    LET o == cs["evaluation"]
        ckpt == o.d["checkpoint"]
        config_path == CheckpointConfigPath(ckpt.s)
        config == LoadSubconfigsFromFilepath(FileTop(config_path))
        Keys == [i \in 1..Len(config) |-> config[i].key]
    IN  IF "checkpoint" \notin DOMAIN o.d \/ ckpt.t # "str"
        THEN [cfgs |-> cs, subs |-> subs, todo |-> <<>>, err |-> "AttributeError"]
        ELSE IF config_path \notin TopFiles
        THEN [cfgs |-> cs, subs |-> subs, todo |-> <<>>, err |-> "FileNotFoundError"]
        ELSE [cfgs |-> AttachNew(cs, config, 1), subs |-> subs \o Keys,
              todo |-> ConfigItems(config, 1, FALSE), err |-> ""]

\* A __freeze_configs that freezes nothing.
FreezeNone(cs, subs, i) ==
    [cfgs |-> cs, err |-> ""]

RECURSIVE FreezeAll(_, _, _)
\* __freeze_configs over the names i...
FreezeAll(cs, subs, i) ==
    IF i > Len(subs) THEN [cfgs |-> cs, err |-> ""]
    ELSE LET Rest(r) ==
                 IF r.err # "" THEN [cfgs |-> cs, err |-> r.err]
                 ELSE FreezeAll([cs EXCEPT ![subs[i]] = r.obj], subs, i + 1)
         IN  The({Rest(r) : r \in {SetAttr(cs[subs[i]], "frozen", Bool(TRUE))}})

\* MainBase.to_dict: for every name of __subconfigs, every key of its
\* help_dict with the attribute's value.
RootToDict(cs, subs) ==
    [s \in {subs[i] : i \in 1..Len(subs)} |->
        [k \in DOMAIN cs[s].help_dict |-> cs[s].d[k]]]

\* MainBase.to_dict raises: a name of __subconfigs is bound to something
\* that is no subconfig, or a key of a help_dict is not an attribute.
RootToDictRaises(cs, subs) ==
    \E i \in 1..Len(subs) :
       \/ subs[i] \notin DOMAIN cs
       \/ /\ subs[i] \in DOMAIN cs
          /\ \/ "help_dict" \in DOMAIN cs[subs[i]].d
             \/ \E k \in DOMAIN cs[subs[i]].help_dict : k \notin DOMAIN cs[subs[i]].d

RECURSIVE OverrideItems(_, _)
\* The passes `items` made in order, up to the first that raises.
OverrideItems(cs, items) ==
    IF items = <<>> THEN [cfgs |-> cs, err |-> ""]
    ELSE LET Rest(r) ==
                 IF r.err # "" THEN r ELSE OverrideItems(r.cfgs, Tail(items))
         IN  The({Rest(r) : r \in {OverrideItem(cs, Head(items))}})

RECURSIVE OverrideWithCmdlineArgs(_, _, _, _)
\* The loop of __override_with_cmdline_args over the tokens i.., up to the
\* first token that raises.
OverrideWithCmdlineArgs(cs, args, i, subs) ==
    IF i > Len(args) THEN [cfgs |-> cs, err |-> ""]
    ELSE LET Rest(f) ==
                 IF f.err # "" THEN f
                 ELSE OverrideWithCmdlineArgs(f.cfgs, args, i + 1, subs)
             File(r) ==
                 IF r.err # "" THEN [cfgs |-> r.cfgs, err |-> r.err]
                 ELSE The({Rest(f) : f \in {OverrideItems(r.cfgs, r.todo)}})
         IN  The({File(r) : r \in {CmdlineOne(cs, args[i], subs)}})

\* build, lines 47-59, as one function of the root's declarations and
\* sys.argv[1:]: the exception that ends it ("" when none) and what the
\* root holds when it has frozen its subconfigs or raised.
Resolve(d, args) ==
    LET names == DeclaredNames(d)
        eval == (names = <<"evaluation">>)
        Out(s, e, cs, subs, ev) ==
            [err |-> e, cfgs |-> cs, subconfigs |-> subs, eval_mode |-> ev,
             save_dir |-> IF ev /\ s.save_dir = "results" THEN "eval_results"
                          ELSE s.save_dir]
        Frozen5(s, subs, ev, fr) ==
            Out(s, fr.err, fr.cfgs, subs, ev)
        Checkpoint4(s, ck, co) ==
            IF co.err # "" THEN Out(s, co.err, co.cfgs, ck.subs, FALSE)
            ELSE The({Frozen5(s, ck.subs, TRUE, fr) :
                         fr \in {FreezeAll(co.cfgs, ck.subs, 1)}})
        Checkpoint3(s, ck) ==
            IF ck.err # "" THEN Out(s, ck.err, ck.cfgs, ck.subs, FALSE)
            ELSE The({Checkpoint4(s, ck, co) :
                         co \in {OverrideItems(ck.cfgs, ck.todo)}})
        Cmdline2(s, cl) ==
            IF cl.err # "" THEN Out(s, cl.err, cl.cfgs, names, FALSE)
            ELSE IF eval
            THEN The({Checkpoint3(s, ck) : ck \in {LoadCheckpoint(cl.cfgs, names)}})
            ELSE The({Frozen5(s, names, FALSE, fr) :
                         fr \in {FreezeAll(cl.cfgs, names, 1)}})
        File1(s, cmd, fb) ==
            IF fb.err # "" THEN Out(s, fb.err, fb.cfgs, names, FALSE)
            ELSE The({Cmdline2(s, cl) :
                         cl \in {OverrideWithCmdlineArgs(fb.cfgs, cmd, 1, names)}})
        Load0(s, cmd, dflt, lc) ==
            IF lc.err # "" THEN Out(s, lc.err, dflt.cfgs, names, FALSE)
            ELSE The({File1(s, cmd, fb) : fb \in {OverrideItems(dflt.cfgs, lc.todo)}})
        Defaults(s, cmd, dflt) ==
            IF dflt.err # "" THEN Out(s, dflt.err, dflt.cfgs, names, FALSE)
            ELSE The({Load0(s, cmd, dflt, lc) : lc \in {LoadConfig(cmd, names)}})
        Help(s, cmd) ==
            The({Defaults(s, cmd, dflt) :
                    dflt \in {RealizeDefaults(d, names, 1, EmptyFn)}})
        Scan(s) ==
            The({Help(s, cmd) : cmd \in {DisplayHelpArgs(s.new_args)}})
    IN  The({Scan(s) : s \in {SetSaveDirExperimentNameResult(args)}})

-----------------------------------------------------------------------------
(* SessionSaver and the root's own attributes *)

Max(S) ==
    CHOOSE x \in S : \A y \in S : y <= x

\* A directory os.walk finds below the experiment directory: the last
\* component of its path when that is numeric, and whether the directory
\* is a child of the experiment directory itself.
RunDirEntry(id) ==
    [name |-> id, numeric |-> TRUE, child |-> TRUE]

\* A child whose name is not numeric, such as "logs".
OtherDir ==
    [name |-> 0, numeric |-> FALSE, child |-> TRUE]

\* A directory with a numeric name inside one of the children, such as "1/7".
NestedDir(id) ==
    [name |-> id, numeric |-> TRUE, child |-> FALSE]

\* The list comprehension of lines 56-60: int() of every numeric last
\* component among the directories os.walk lists.
WalkedIds(dirs) ==
    {e.name : e \in {x \in dirs : x.numeric}}

\* SessionSaver.configure_save_dir_and_run_id on an experiment directory
\* holding `dirs`: os.walk lists the directory alone (run 1), or max() of
\* the numeric names decides, raising on an empty list.
ConfigureSaveDirAndRunId(dirs) ==
    IF dirs = {} THEN [run_id |-> 1, err |-> ""]
    ELSE IF WalkedIds(dirs) = {} THEN [run_id |-> 0, err |-> "ValueError"]
    ELSE [run_id |-> Max(WalkedIds(dirs)) + 1, err |-> ""]

\* A value of a root attribute: a plain value, or the run directory
\* os.path.join(save_dir, experiment_name, str(run_id)).
RVal(v) ==
    [t |-> v.t, s |-> v.s, e |-> "", n |-> v.n]

RunDir(base, exp, id) ==
    [t |-> "path", s |-> base, e |-> exp, n |-> id]

\* self.__frozen inside MainBase: the attribute _MainBase__frozen, which is
\* the class default False unless the instance holds one.
MainFrozen(rd) ==
    IF "_MainBase__frozen" \in DOMAIN rd THEN rd["_MainBase__frozen"].n = 1 ELSE FALSE

\* The error of MainBase.__setattr__, "" when it stores.
RootSetAttrError(rd) ==
    IF MainFrozen(rd) THEN "FrozenConfigError" ELSE ""

\* MainBase.__setattr__ on the root's plain attributes.
RootSetAttr(rd, key, value) ==
    IF RootSetAttrError(rd) # ""
    THEN [rootd |-> rd, err |-> RootSetAttrError(rd)]
    ELSE [rootd |-> Put(rd, key, value), err |-> ""]

-----------------------------------------------------------------------------
(* Bounds and inputs *)

MaxArgs ==
    2

MaxRuns ==
    1

SeqsUpTo(S, n) ==
    UNION {[1..k -> S] : k \in 0..n}

\* What the experiment directory may hold before build: the runs 1..k, or
\* one directory that is not a run.
InitDisks ==
    {{RunDirEntry(i) : i \in 1..k} : k \in 0..MaxRuns} \cup {{OtherDir}}

NoCall ==
    [op |-> "none", obj |-> "", key |-> "", val |-> None, ok |-> TRUE, err |-> ""]

\* No to_dict call has been made: the count of the calls, the object of
\* the last one, whether it raised, and the mapping it returned.
NoExport ==
    [calls |-> 0, obj |-> "", raised |-> FALSE, dict |-> EmptyFn]

NothingSaved ==
    [written |-> FALSE, dir |-> RunDir("", "", 0), content |-> EmptyFn]

\* Attribute names and values a caller assigns on a BaseConfig of its own.
UserKeys ==
    {"model_type", "new_attr", "locked", "frozen", "arg_dict", "reserved_attributes"}

UserValues(key) ==
    CASE key \in {"locked", "frozen"} -> {Bool(TRUE), Bool(FALSE)}
      [] key = "reserved_attributes" -> {EmptyList}
      [] OTHER -> {Str("patch")}

\* Attribute names and values a caller assigns on a subconfig of a built
\* root: the first declared argument, a new name, the two flags.
BuiltKeys(o) ==
    {"new_attr", "locked", "frozen"} \cup
    {k \in {"model_type", "lr", "checkpoint"} : k \in DOMAIN o.arg_dict}

BuiltValues(key) ==
    IF key \in {"locked", "frozen"} THEN {Bool(FALSE)} ELSE {Str("patch")}

\* Attribute names and values a caller assigns on the root.
RootKeys ==
    {"model", "save_dir", "new_attr"}

RootValues ==
    {RVal(Str("elsewhere"))}

\* The most to_dict calls a caller makes.
MaxExports ==
    2

\* The largest run id an allocation may claim.
MaxRunId ==
    5

\* The directories an experiment directory may hold before the allocator
\* is called on its own: runs, a directory that is not a run, and
\* directories with numeric names inside one of those.
SaverDirs ==
    {RunDirEntry(i) : i \in 1..(MaxRunId - 2)} \cup {OtherDir}
        \cup {NestedDir(2), NestedDir(MaxRunId - 1)}

InitTrees ==
    {t \in SUBSET SaverDirs :
        (\E e \in t : ~e.child) => (\E e \in t : e.child)}

\* The processes that allocate a run directory at the same time.
Processes ==
    {"p", "q"}

\* The names two BaseConfig instances of a caller are bound to, and the
\* attribute names, values and declarations the caller uses on them.
TwoNames ==
    {"a", "b"}

TwoKeys ==
    {"model_type", "locked", "frozen"}

TwoArgs ==
    {Arg("model_type", "str", Str("retinanet"), "help", "model_type_in")}

\* Declarations a caller makes on a BaseConfig of its own.
UserArgs ==
    {Arg("model_type", "str", Str("retinanet"), "help", "model_type_in"),
     Arg("model_type", "str", Str("bad_model_type"), "help", "model_type_in"),
     Arg("model_type", "str", None, "help", "model_type_in"),
     Arg("model_type", "float", Str("0.001"), "help", "none"),
     Arg("locked", "bool", Bool(TRUE), "help", "none"),
     Arg("frozen", "bool", Bool(TRUE), "help", "none"),
     Arg("arg_dict", "str", Str("patch"), "help", "none")}

-----------------------------------------------------------------------------
(* build(), step by step *)

Fail(e) ==
    /\ pc' = "failed"
    /\ err' = e

\* build, lines 45-50: __set_save_dir_experiment_name.
SetSaveDirExperimentName ==
    /\ pc = "start"
    /\ LET r == SetSaveDirExperimentNameResult(argv)
       IN  /\ cmd_args' = r.new_args
           /\ save_dir' = r.save_dir
           /\ experiment_name' = r.experiment_name
    /\ pc' = "set_defaults"
    /\ UNCHANGED <<exported, procs, exp_dir, argv, cmd_i, todo, dont_save, decl, subconfigs, cfgs, rootd,
                   eval_mode, disk, saved, printed, err, last>>

\* build, line 51: __set_defaults.
SetDefaults ==
    /\ pc = "set_defaults"
    /\ subconfigs' = DeclaredNames(decl)
    /\ LET r == RealizeDefaults(decl, DeclaredNames(decl), 1, EmptyFn)
       IN  /\ cfgs' = r.cfgs
           /\ IF r.err # "" THEN Fail(r.err)
              ELSE pc' = "display_help" /\ err' = err
    /\ UNCHANGED <<exported, procs, exp_dir, argv, cmd_args, cmd_i, todo, dont_save, save_dir, experiment_name,
                   decl, rootd, eval_mode, disk, saved, printed, last>>

\* build, line 52: __display_help.
DisplayHelp ==
    /\ pc = "display_help"
    /\ cmd_args' = DisplayHelpArgs(cmd_args)
    /\ printed' = (InSeq(Flag("--h"), cmd_args) \/ InSeq(Flag("--help"), cmd_args))
    /\ pc' = "load_file"
    /\ UNCHANGED <<exported, procs, exp_dir, argv, cmd_i, todo, dont_save, save_dir, experiment_name, decl,
                   subconfigs, cfgs, rootd, eval_mode, disk, saved, err, last>>

\* build, line 53: __override_defaults, lines 233-241: find, load and check
\* the config file.
LoadConfigFile ==
    /\ pc = "load_file"
    /\ LET r == LoadConfig(cmd_args, subconfigs)
       IN  /\ todo' = r.todo
           /\ IF r.err # "" THEN Fail(r.err)
              ELSE /\ pc' = IF DetermineConfigPath(cmd_args) = ""
                            THEN "override_cmdline" ELSE "override_file"
                   /\ err' = err
    /\ UNCHANGED <<exported, procs, exp_dir, argv, cmd_args, cmd_i, dont_save, save_dir, experiment_name, decl,
                   subconfigs, cfgs, rootd, eval_mode, disk, saved, printed, last>>

\* One pass of the loop of __override_individual_subconfig, whichever of
\* the file-based, command-line or checkpoint override called it.
OverrideIndividualArg ==
    /\ pc \in {"override_file", "override_cmdline", "override_checkpoint"}
    /\ todo # <<>>
    /\ LET r == OverrideItem(cfgs, Head(todo))
       IN  /\ cfgs' = r.cfgs
           /\ IF r.err # "" THEN Fail(r.err) /\ todo' = todo
              ELSE pc' = pc /\ err' = err /\ todo' = Tail(todo)
    /\ UNCHANGED <<exported, procs, exp_dir, argv, cmd_args, cmd_i, dont_save, save_dir, experiment_name, decl,
                   subconfigs, rootd, eval_mode, disk, saved, printed, last>>

\* __override_defaults, line 242 returns and line 243 begins.
FilebasedArgsDone ==
    /\ pc = "override_file"
    /\ todo = <<>>
    /\ pc' = "override_cmdline"
    /\ UNCHANGED <<exported, procs, exp_dir, argv, cmd_args, cmd_i, todo, dont_save, save_dir, experiment_name,
                   decl, subconfigs, cfgs, rootd, eval_mode, disk, saved, printed, err,
                   last>>

\* One pass of the loop of __override_with_cmdline_args.
OverrideCmdlineArg ==
    /\ pc = "override_cmdline"
    /\ todo = <<>>
    /\ cmd_i <= Len(cmd_args)
    /\ LET r == CmdlineOne(cfgs, cmd_args[cmd_i], subconfigs)
       IN  /\ cfgs' = r.cfgs
           /\ todo' = r.todo
           /\ IF r.err # "" THEN Fail(r.err) /\ cmd_i' = cmd_i
              ELSE pc' = pc /\ err' = err /\ cmd_i' = cmd_i + 1
    /\ UNCHANGED <<exported, procs, exp_dir, argv, cmd_args, dont_save, save_dir, experiment_name, decl,
                   subconfigs, rootd, eval_mode, disk, saved, printed, last>>

\* The loop of __override_with_cmdline_args ends; build reaches line 54.
CmdlineArgsDone ==
    /\ pc = "override_cmdline"
    /\ todo = <<>>
    /\ cmd_i > Len(cmd_args)
    /\ pc' = "load_checkpoint"
    /\ UNCHANGED <<exported, procs, exp_dir, argv, cmd_args, cmd_i, todo, dont_save, save_dir, experiment_name,
                   decl, subconfigs, cfgs, rootd, eval_mode, disk, saved, printed, err,
                   last>>

\* build, line 54: __load_checkpoint_config_if_indicated, lines 75-84, the
\* branch taken when "evaluation" is the only subconfig.
LoadCheckpointConfig ==
    /\ pc = "load_checkpoint"
    /\ subconfigs = <<"evaluation">>
    /\ LET r == LoadCheckpoint(cfgs, subconfigs)
       IN  /\ cfgs' = r.cfgs
           /\ subconfigs' = r.subs
           /\ todo' = r.todo
           /\ IF r.err # "" THEN Fail(r.err)
              ELSE pc' = "override_checkpoint" /\ err' = err
    /\ UNCHANGED <<exported, procs, exp_dir, argv, cmd_args, cmd_i, dont_save, save_dir, experiment_name, decl,
                   rootd, eval_mode, disk, saved, printed, last>>

\* __load_checkpoint_config_if_indicated, line 86: self.__eval = True.
CheckpointArgsDone ==
    /\ pc = "override_checkpoint"
    /\ todo = <<>>
    /\ eval_mode' = TRUE
    /\ pc' = "finalize_dir"
    /\ UNCHANGED <<exported, procs, exp_dir, argv, cmd_args, cmd_i, todo, dont_save, save_dir, experiment_name,
                   decl, subconfigs, cfgs, rootd, disk, saved, printed, err, last>>

\* build, line 54: the else branch (pass).
NoCheckpointConfig ==
    /\ pc = "load_checkpoint"
    /\ subconfigs # <<"evaluation">>
    /\ pc' = "finalize_dir"
    /\ UNCHANGED <<exported, procs, exp_dir, argv, cmd_args, cmd_i, todo, dont_save, save_dir, experiment_name,
                   decl, subconfigs, cfgs, rootd, eval_mode, disk, saved, printed, err,
                   last>>

\* build, lines 55-58: the evaluation-results directory.
FinalizeSaveDir ==
    /\ pc = "finalize_dir"
    /\ save_dir' = IF eval_mode /\ save_dir = "results" THEN "eval_results" ELSE save_dir
    /\ pc' = "freeze"
    /\ UNCHANGED <<exported, procs, exp_dir, argv, cmd_args, cmd_i, todo, dont_save, experiment_name, decl,
                   subconfigs, cfgs, rootd, eval_mode, disk, saved, printed, err, last>>

\* build, line 59: __freeze_configs.
FreezeConfigs ==
    /\ pc = "freeze"
    /\ LET r == FreezeAll(cfgs, subconfigs, 1)
       IN  /\ cfgs' = r.cfgs
           /\ IF r.err # "" THEN Fail(r.err)
              ELSE pc' = "persist" /\ err' = err
    /\ UNCHANGED <<exported, procs, exp_dir, argv, cmd_args, cmd_i, todo, dont_save, save_dir, experiment_name,
                   decl, subconfigs, rootd, eval_mode, disk, saved, printed, last>>

\* build, lines 60-65: allocate the run directory, write config.json,
\* record save_dir.
Persist ==
    /\ pc = "persist"
    /\ ~dont_save
    /\ LET a == ConfigureSaveDirAndRunId(disk)
           dir == RunDir(save_dir, experiment_name, a.run_id)
           r == RootSetAttr(rootd, "save_dir", dir)
       IN  IF a.err # ""
           THEN Fail(a.err) /\ UNCHANGED <<disk, saved, rootd>>
           ELSE /\ disk' = disk \cup {RunDirEntry(a.run_id)}
                /\ saved' = [written |-> TRUE, dir |-> dir,
                             content |-> RootToDict(cfgs, subconfigs)]
                /\ rootd' = r.rootd
                /\ IF r.err # "" THEN Fail(r.err)
                   ELSE pc' = "freeze_root" /\ err' = err
    /\ UNCHANGED <<exported, procs, exp_dir, argv, cmd_args, cmd_i, todo, dont_save, save_dir, experiment_name,
                   decl, subconfigs, cfgs, eval_mode, printed, last>>

\* build, lines 66-67: self.save_dir = None.
SkipPersist ==
    /\ pc = "persist"
    /\ dont_save
    /\ LET r == RootSetAttr(rootd, "save_dir", RVal(None))
       IN  /\ rootd' = r.rootd
           /\ IF r.err # "" THEN Fail(r.err)
              ELSE pc' = "freeze_root" /\ err' = err
    /\ UNCHANGED <<exported, procs, exp_dir, argv, cmd_args, cmd_i, todo, dont_save, save_dir, experiment_name,
                   decl, subconfigs, cfgs, eval_mode, disk, saved, printed, last>>

\* build, line 68: self.frozen = True.
FreezeRoot ==
    /\ pc = "freeze_root"
    /\ LET r == RootSetAttr(rootd, "frozen", RVal(Bool(TRUE)))
       IN  /\ rootd' = r.rootd
           /\ IF r.err # "" THEN Fail(r.err)
              ELSE pc' = "done" /\ err' = err
    /\ UNCHANGED <<exported, procs, exp_dir, argv, cmd_args, cmd_i, todo, dont_save, save_dir, experiment_name,
                   decl, subconfigs, cfgs, eval_mode, disk, saved, printed, last>>

-----------------------------------------------------------------------------
(* Calls a caller makes once build has returned, or on a BaseConfig of its own *)

\* An assignment that stores on every instance instead of on the one named.
UserSetAttrShared(name, key, value) ==
    /\ pc \in {"done", "standalone"}
    /\ name \in DOMAIN cfgs
    /\ LET r == SetAttr(cfgs[name], key, value)
       IN  /\ cfgs' = [x \in DOMAIN cfgs |->
                          IF x = name THEN r.obj
                          ELSE IF r.err = ""
                          THEN [cfgs[x] EXCEPT !.d = Put(@, key, value)]
                          ELSE cfgs[x]]
           /\ last' = [op |-> "setattr", obj |-> name, key |-> key, val |-> value,
                       ok |-> (r.err = ""), err |-> r.err]
    /\ UNCHANGED <<exported, procs, exp_dir, pc, argv, cmd_args, cmd_i, todo, dont_save, save_dir,
                   experiment_name, decl, subconfigs, rootd, eval_mode, disk, saved,
                   printed, err>>

\* subcfg.key = value
UserSetAttr(name, key, value) ==
    /\ pc \in {"done", "standalone"}
    /\ name \in DOMAIN cfgs
    /\ LET r == SetAttr(cfgs[name], key, value)
       IN  /\ cfgs' = [cfgs EXCEPT ![name] = r.obj]
           /\ last' = [op |-> "setattr", obj |-> name, key |-> key, val |-> value,
                       ok |-> (r.err = ""), err |-> r.err]
    /\ UNCHANGED <<exported, procs, exp_dir, pc, argv, cmd_args, cmd_i, todo, dont_save, save_dir,
                   experiment_name, decl, subconfigs, rootd, eval_mode, disk, saved,
                   printed, err>>

\* subcfg.add_argument(name, type, default, help, validation)
UserAddArgument(name, a) ==
    /\ pc = "standalone"
    /\ name \in DOMAIN cfgs
    /\ LET r == AddArgument(cfgs[name], a.name, a.type, a.default, a.help, a.validation)
       IN  /\ cfgs' = [cfgs EXCEPT ![name] = r.obj]
           /\ last' = [op |-> "add_argument", obj |-> name, key |-> a.name,
                       val |-> a.default, ok |-> (r.err = ""), err |-> r.err]
    /\ UNCHANGED <<exported, procs, exp_dir, pc, argv, cmd_args, cmd_i, todo, dont_save, save_dir,
                   experiment_name, decl, subconfigs, rootd, eval_mode, disk, saved,
                   printed, err>>

\* A to_dict that takes each argument out of arg_dict as it exports it.
UserToDictPopping(name) ==
    /\ pc \in {"done", "standalone"}
    /\ name \in DOMAIN cfgs
    /\ exported.calls < MaxExports
    /\ exported' = [calls |-> exported.calls + 1, obj |-> name,
                    raised |-> ToDictRaises(cfgs[name]),
                    dict |-> IF ToDictRaises(cfgs[name]) THEN EmptyFn
                             ELSE ToDict(cfgs[name])]
    /\ cfgs' = [cfgs EXCEPT ![name].arg_dict = EmptyFn]
    /\ last' = [op |-> "to_dict", obj |-> name, key |-> "", val |-> None,
                ok |-> ~ToDictRaises(cfgs[name]),
                err |-> IF ToDictRaises(cfgs[name]) THEN "AttributeError" ELSE ""]
    /\ UNCHANGED <<pc, argv, cmd_args, cmd_i, todo, dont_save, save_dir,
                   experiment_name, decl, subconfigs, rootd, eval_mode, disk, saved,
                   printed, err, procs, exp_dir>>

\* subcfg.to_dict()
UserToDict(name) ==
    /\ pc \in {"done", "standalone"}
    /\ name \in DOMAIN cfgs
    /\ exported.calls < MaxExports
    /\ exported' = [calls |-> exported.calls + 1, obj |-> name,
                    raised |-> ToDictRaises(cfgs[name]),
                    dict |-> IF ToDictRaises(cfgs[name]) THEN EmptyFn
                             ELSE ToDict(cfgs[name])]
    /\ last' = [op |-> "to_dict", obj |-> name, key |-> "", val |-> None,
                ok |-> ~ToDictRaises(cfgs[name]),
                err |-> IF ToDictRaises(cfgs[name]) THEN "AttributeError" ELSE ""]
    /\ UNCHANGED <<pc, argv, cmd_args, cmd_i, todo, dont_save, save_dir,
                   experiment_name, decl, subconfigs, cfgs, rootd, eval_mode, disk,
                   saved, printed, err, procs, exp_dir>>

\* config.to_dict() on the root.
UserRootToDict ==
    /\ pc = "done"
    /\ exported.calls < MaxExports
    /\ exported' = [calls |-> exported.calls + 1, obj |-> "root",
                    raised |-> RootToDictRaises(cfgs, subconfigs),
                    dict |-> IF RootToDictRaises(cfgs, subconfigs) THEN EmptyFn
                             ELSE RootToDict(cfgs, subconfigs)]
    /\ last' = [op |-> "to_dict", obj |-> "root", key |-> "", val |-> None,
                ok |-> ~RootToDictRaises(cfgs, subconfigs),
                err |-> IF RootToDictRaises(cfgs, subconfigs) THEN "AttributeError"
                        ELSE ""]
    /\ UNCHANGED <<pc, argv, cmd_args, cmd_i, todo, dont_save, save_dir,
                   experiment_name, decl, subconfigs, cfgs, rootd, eval_mode, disk,
                   saved, printed, err, procs, exp_dir>>

\* name = BaseConfig(): the name is bound to a new instance.
UserNew(name) ==
    /\ pc = "standalone"
    /\ cfgs' = Put(cfgs, name, NewBaseConfig)
    /\ last' = [op |-> "new", obj |-> name, key |-> "", val |-> None,
                ok |-> TRUE, err |-> ""]
    /\ UNCHANGED <<exported, procs, exp_dir, pc, argv, cmd_args, cmd_i, todo, dont_save, save_dir,
                   experiment_name, decl, subconfigs, rootd, eval_mode, disk, saved,
                   printed, err>>

\* SessionSaver.configure_save_dir_and_run_id called on its own.
Allocate ==
    /\ pc = "saver"
    /\ LET a == ConfigureSaveDirAndRunId(disk)
       IN  /\ a.run_id <= MaxRunId
           /\ disk' = IF a.err = "" THEN disk \cup {RunDirEntry(a.run_id)} ELSE disk
           /\ last' = [op |-> "allocate", obj |-> "", key |-> "",
                       val |-> [t |-> "int", s |-> "", n |-> a.run_id],
                       ok |-> (a.err = ""), err |-> a.err]
    /\ UNCHANGED <<exported, procs, exp_dir, pc, argv, cmd_args, cmd_i, todo, dont_save, save_dir,
                   experiment_name, decl, subconfigs, cfgs, rootd, eval_mode, saved,
                   printed, err>>

\* One process inside configure_save_dir_and_run_id: where it stands, the
\* run id it has computed, and the error it has raised.
Proc(at, id, e) ==
    [pc |-> at, run_id |-> id, err |-> e]

\* Line 37, os.path.exists(save_dir) on the experiment directory.
CheckExists(p) ==
    /\ pc = "race"
    /\ procs[p].pc = "exists"
    /\ procs' = [procs EXCEPT ![p] = Proc(IF exp_dir THEN "walk" ELSE "mkdir_exp", 0, "")]
    /\ UNCHANGED <<exported, pc, argv, cmd_args, cmd_i, todo, dont_save, save_dir,
                   experiment_name, decl, subconfigs, cfgs, rootd, eval_mode, saved,
                   printed, err, last, disk, exp_dir>>

\* Line 38, os.makedirs(save_dir): FileExistsError when the experiment
\* directory has appeared since line 37.
MakeExperimentDir(p) ==
    /\ pc = "race"
    /\ procs[p].pc = "mkdir_exp"
    /\ procs' = [procs EXCEPT ![p] = IF exp_dir THEN Proc("raised", 0, "FileExistsError")
                                     ELSE Proc("walk", 0, "")]
    /\ exp_dir' = TRUE
    /\ UNCHANGED <<exported, pc, argv, cmd_args, cmd_i, todo, dont_save, save_dir,
                   experiment_name, decl, subconfigs, cfgs, rootd, eval_mode, saved,
                   printed, err, last, disk>>

\* Lines 44-49, the first os.walk: the experiment directory alone means run 1.
Walk(p) ==
    /\ pc = "race"
    /\ procs[p].pc = "walk"
    /\ procs' = [procs EXCEPT ![p] = IF disk = {} THEN Proc("mk_first", 1, "")
                                     ELSE Proc("walk_again", 0, "")]
    /\ UNCHANGED <<exported, pc, argv, cmd_args, cmd_i, todo, dont_save, save_dir,
                   experiment_name, decl, subconfigs, cfgs, rootd, eval_mode, saved,
                   printed, err, last, disk, exp_dir>>

\* Line 50, os.makedirs of run 1: FileExistsError when it is there already.
MakeFirstRun(p) ==
    /\ pc = "race"
    /\ procs[p].pc = "mk_first"
    /\ procs' = [procs EXCEPT ![p] = IF RunDirEntry(1) \in disk
                                     THEN Proc("raised", 1, "FileExistsError")
                                     ELSE Proc("returned", 1, "")]
    /\ disk' = disk \cup {RunDirEntry(1)}
    /\ UNCHANGED <<exported, pc, argv, cmd_args, cmd_i, todo, dont_save, save_dir,
                   experiment_name, decl, subconfigs, cfgs, rootd, eval_mode, saved,
                   printed, err, last, exp_dir>>

\* Lines 55-63, the second os.walk and max() + 1 of the numeric names.
WalkAgain(p) ==
    /\ pc = "race"
    /\ procs[p].pc = "walk_again"
    /\ procs' = [procs EXCEPT ![p] =
                    IF ConfigureSaveDirAndRunId(disk).err # ""
                    THEN Proc("raised", 0, ConfigureSaveDirAndRunId(disk).err)
                    ELSE Proc("mk_run", ConfigureSaveDirAndRunId(disk).run_id, "")]
    /\ UNCHANGED <<exported, pc, argv, cmd_args, cmd_i, todo, dont_save, save_dir,
                   experiment_name, decl, subconfigs, cfgs, rootd, eval_mode, saved,
                   printed, err, last, disk, exp_dir>>

\* os.makedirs(save_dir, exist_ok=True) in the place of line 72.
MakeRunDirExistOk(p) ==
    /\ pc = "race"
    /\ procs[p].pc = "mk_run"
    /\ procs' = [procs EXCEPT ![p] = Proc("returned", procs[p].run_id, "")]
    /\ disk' = disk \cup {RunDirEntry(procs[p].run_id)}
    /\ UNCHANGED <<exported, pc, argv, cmd_args, cmd_i, todo, dont_save, save_dir,
                   experiment_name, decl, subconfigs, cfgs, rootd, eval_mode, saved,
                   printed, err, last, exp_dir>>

\* Line 72, os.makedirs of the run directory: FileExistsError when it is
\* there already.
MakeRunDir(p) ==
    /\ pc = "race"
    /\ procs[p].pc = "mk_run"
    /\ procs' = [procs EXCEPT ![p] = IF RunDirEntry(procs[p].run_id) \in disk
                                     THEN Proc("raised", procs[p].run_id, "FileExistsError")
                                     ELSE Proc("returned", procs[p].run_id, "")]
    /\ disk' = disk \cup {RunDirEntry(procs[p].run_id)}
    /\ UNCHANGED <<exported, pc, argv, cmd_args, cmd_i, todo, dont_save, save_dir,
                   experiment_name, decl, subconfigs, cfgs, rootd, eval_mode, saved,
                   printed, err, last, exp_dir>>

\* config.key = value on the root: a subconfig's name is rebound to the value.
UserRootSetAttr(key, value) ==
    /\ pc \in {"done", "standalone"}
    /\ LET r == RootSetAttr(rootd, key, value)
       IN  /\ rootd' = r.rootd
           /\ cfgs' = IF r.err = ""
                      THEN [x \in (DOMAIN cfgs) \ {key} |-> cfgs[x]]
                      ELSE cfgs
           /\ last' = [op |-> "root_setattr", obj |-> "root", key |-> key,
                       val |-> [t |-> value.t, s |-> value.s, n |-> value.n],
                       ok |-> (r.err = ""), err |-> r.err]
    /\ UNCHANGED <<exported, procs, exp_dir, pc, argv, cmd_args, cmd_i, todo, dont_save, save_dir,
                   experiment_name, decl, subconfigs, eval_mode, disk, saved, printed,
                   err>>

-----------------------------------------------------------------------------
(* Specifications *)

Init ==
    /\ pc = "start"
    /\ decl \in {MainConfig, EvalMainConfig}
    /\ argv \in SeqsUpTo(TokensFor(decl), MaxArgs)
    /\ dont_save \in BOOLEAN
    /\ disk \in (IF dont_save THEN {{}} ELSE InitDisks)
    /\ cmd_args = <<>>
    /\ cmd_i = 1
    /\ todo = <<>>
    /\ save_dir = ""
    /\ experiment_name = ""
    /\ subconfigs = <<>>
    /\ cfgs = EmptyFn
    /\ rootd = EmptyFn
    /\ eval_mode = FALSE
    /\ saved = NothingSaved
    /\ printed = FALSE
    /\ err = ""
    /\ last = NoCall
    /\ exported = NoExport
    /\ procs = EmptyFn
    /\ exp_dir = TRUE

Next ==
    \/ SetSaveDirExperimentName
    \/ SetDefaults
    \/ DisplayHelp
    \/ LoadConfigFile
    \/ OverrideIndividualArg
    \/ FilebasedArgsDone
    \/ OverrideCmdlineArg
    \/ CmdlineArgsDone
    \/ LoadCheckpointConfig
    \/ CheckpointArgsDone
    \/ NoCheckpointConfig
    \/ FinalizeSaveDir
    \/ FreezeConfigs
    \/ Persist
    \/ SkipPersist
    \/ FreezeRoot
    \/ \E name \in DOMAIN cfgs :
          \E key \in BuiltKeys(cfgs[name]) :
             \E value \in BuiltValues(key) : UserSetAttr(name, key, value)
    \/ \E key \in RootKeys, value \in RootValues : UserRootSetAttr(key, value)

Spec ==
    Init /\ [][Next]_vars

\* A BaseConfig a caller constructs and uses on its own.
InitCfg ==
    /\ pc = "standalone"
    /\ decl = EmptyFn
    /\ argv = <<>>
    /\ dont_save = TRUE
    /\ disk = {}
    /\ cmd_args = <<>>
    /\ cmd_i = 1
    /\ todo = <<>>
    /\ save_dir = ""
    /\ experiment_name = ""
    /\ subconfigs = <<>>
    /\ cfgs = [x \in {"c"} |-> NewBaseConfig]
    /\ rootd = EmptyFn
    /\ eval_mode = FALSE
    /\ saved = NothingSaved
    /\ printed = FALSE
    /\ err = ""
    /\ last = NoCall
    /\ exported = NoExport
    /\ procs = EmptyFn
    /\ exp_dir = TRUE

NextCfg ==
    \/ \E name \in DOMAIN cfgs, key \in UserKeys :
          \E value \in UserValues(key) : UserSetAttr(name, key, value)
    \/ \E name \in DOMAIN cfgs, a \in UserArgs : UserAddArgument(name, a)

SpecCfg ==
    InitCfg /\ [][NextCfg]_vars

\* The same BaseConfig under attribute assignments alone.
NextAssign ==
    \E name \in DOMAIN cfgs, key \in UserKeys :
       \E value \in UserValues(key) : UserSetAttr(name, key, value)

SpecAssign ==
    InitCfg /\ [][NextAssign]_vars

\* Two BaseConfig instances and a root that a caller constructs and uses
\* side by side.
InitTwo ==
    /\ pc = "standalone"
    /\ decl = EmptyFn
    /\ argv = <<>>
    /\ dont_save = TRUE
    /\ disk = {}
    /\ cmd_args = <<>>
    /\ cmd_i = 1
    /\ todo = <<>>
    /\ save_dir = ""
    /\ experiment_name = ""
    /\ subconfigs = <<>>
    /\ cfgs = EmptyFn
    /\ rootd = EmptyFn
    /\ eval_mode = FALSE
    /\ saved = NothingSaved
    /\ printed = FALSE
    /\ err = ""
    /\ last = NoCall
    /\ exported = NoExport
    /\ procs = EmptyFn
    /\ exp_dir = TRUE

NextTwo ==
    \/ \E name \in TwoNames : UserNew(name)
    \/ \E name \in TwoNames, key \in TwoKeys :
          \E value \in UserValues(key) : UserSetAttr(name, key, value)
    \/ \E name \in TwoNames, a \in TwoArgs : UserAddArgument(name, a)
    \/ UserRootSetAttr("frozen", RVal(Bool(TRUE)))

SpecTwo ==
    InitTwo /\ [][NextTwo]_vars

\* A root that build(dont_save=True) has returned from, on a command line
\* of at most one token, and the calls a caller then makes on it.
InitExport ==
    /\ pc = "done"
    /\ decl \in {MainConfig, EvalMainConfig}
    /\ argv \in SeqsUpTo(TokensFor(decl), 1)
    /\ dont_save = TRUE
    /\ disk = {}
    /\ cmd_args = DisplayHelpArgs(SetSaveDirExperimentNameResult(argv).new_args)
    /\ cmd_i = Len(cmd_args) + 1
    /\ todo = <<>>
    /\ experiment_name = SetSaveDirExperimentNameResult(argv).experiment_name
    /\ \E r \in {Resolve(decl, argv)} :
          /\ r.err = ""
          /\ save_dir = r.save_dir
          /\ subconfigs = r.subconfigs
          /\ cfgs = r.cfgs
          /\ eval_mode = r.eval_mode
    /\ rootd = [x \in {"save_dir", "frozen"} |->
                  IF x = "frozen" THEN RVal(Bool(TRUE)) ELSE RVal(None)]
    /\ saved = NothingSaved
    /\ printed = (\E i \in 1..Len(argv) : argv[i] \in {Flag("--h"), Flag("--help")})
    /\ err = ""
    /\ last = NoCall
    /\ exported = NoExport
    /\ procs = EmptyFn
    /\ exp_dir = TRUE

NextExport ==
    \/ \E name \in DOMAIN cfgs : UserToDict(name)
    \/ UserRootToDict
    \/ \E name \in DOMAIN cfgs :
          \E key \in BuiltKeys(cfgs[name]) :
             \E value \in BuiltValues(key) : UserSetAttr(name, key, value)
    \/ \E key \in RootKeys, value \in RootValues : UserRootSetAttr(key, value)

SpecExport ==
    InitExport /\ [][NextExport]_vars

\* Two processes call the allocator with the same base directory and
\* experiment name; the experiment directory may not exist yet.
InitRace ==
    /\ pc = "race"
    /\ decl = EmptyFn
    /\ argv = <<>>
    /\ dont_save = FALSE
    /\ exp_dir \in BOOLEAN
    /\ disk \in InitTrees
    /\ ~exp_dir => disk = {}
    /\ procs = [p \in Processes |-> Proc("exists", 0, "")]
    /\ cmd_args = <<>>
    /\ cmd_i = 1
    /\ todo = <<>>
    /\ save_dir = ""
    /\ experiment_name = ""
    /\ subconfigs = <<>>
    /\ cfgs = EmptyFn
    /\ rootd = EmptyFn
    /\ eval_mode = FALSE
    /\ saved = NothingSaved
    /\ printed = FALSE
    /\ err = ""
    /\ last = NoCall
    /\ exported = NoExport

NextRace ==
    \E p \in Processes :
       \/ CheckExists(p)
       \/ MakeExperimentDir(p)
       \/ Walk(p)
       \/ MakeFirstRun(p)
       \/ WalkAgain(p)
       \/ MakeRunDir(p)

SpecRace ==
    InitRace /\ [][NextRace]_vars

\* The allocator called again and again on one experiment directory.
InitSaver ==
    /\ pc = "saver"
    /\ decl = EmptyFn
    /\ argv = <<>>
    /\ dont_save = FALSE
    /\ disk \in InitTrees
    /\ cmd_args = <<>>
    /\ cmd_i = 1
    /\ todo = <<>>
    /\ save_dir = ""
    /\ experiment_name = ""
    /\ subconfigs = <<>>
    /\ cfgs = EmptyFn
    /\ rootd = EmptyFn
    /\ eval_mode = FALSE
    /\ saved = NothingSaved
    /\ printed = FALSE
    /\ err = ""
    /\ last = NoCall
    /\ exported = NoExport
    /\ procs = EmptyFn
    /\ exp_dir = TRUE

NextSaver ==
    Allocate

SpecSaver ==
    InitSaver /\ [][NextSaver]_vars

-----------------------------------------------------------------------------
(* Vocabulary of the properties *)

\* The names a subconfig class declares, and the declaration of one.
DeclaredArgs(cls) ==
    {ClassArgs(cls)[i].name : i \in 1..Len(ClassArgs(cls))}

Declaration(cls, a) ==
    CHOOSE x \in {ClassArgs(cls)[i] : i \in 1..Len(ClassArgs(cls))} : x.name = a

\* The subconfig s holds the value v under the name a.
Holds(cs, s, a, v) ==
    /\ s \in DOMAIN cs
    /\ a \in DOMAIN cs[s].d
    /\ cs[s].d[a] = v

\* Every declared argument of every declared subconfig holds its default.
AllDefaults(cs) ==
    \A s \in DOMAIN decl :
       \A a \in DeclaredArgs(decl[s]) :
          Holds(cs, s, a, Declaration(decl[s], a).default)

\* The tokens of the command line that say `s.a=value`.
CmdlineTokens(s, a) ==
    {i \in 1..Len(argv) : argv[i].eq /\ argv[i].name = <<s, a>>}

\* What the root holds, in the shape Resolve gives it.
Resolved ==
    [err |-> err, cfgs |-> cfgs, subconfigs |-> subconfigs, eval_mode |-> eval_mode,
     save_dir |-> save_dir]

\* The steps of build and the one-function form of build agree: once the
\* subconfigs are frozen, and when an override step has raised.
ResolveAgrees ==
    /\ pc = "persist" => Resolved = Resolve(decl, argv)
    /\ (pc = "failed" /\ last = NoCall /\ ~Frozen(cfgs[subconfigs[1]]))
          => Resolved = Resolve(decl, argv)
    /\ (pc = "failed" /\ last = NoCall /\ Frozen(cfgs[subconfigs[1]]))
          => Resolve(decl, argv).err = ""

\* build has frozen its subconfigs, or an override step has raised.
Settled ==
    \/ pc = "persist"
    \/ pc = "failed" /\ last = NoCall /\ Resolve(decl, argv).err # ""

\* The tokens of the command line that say `config=path`.
ConfigTokens ==
    {i \in 1..Len(argv) : argv[i].eq /\ argv[i].name = <<"config">>}

\* The config file the command line names, with file indirection resolved.
NamedConfig ==
    IF ConfigTokens = {} THEN <<>>
    ELSE LoadSubconfigsFromFilepath(FileTop(argv[Max(ConfigTokens)].val))

\* The values the named config file gives for the argument a of s.
FileValues(s, a) ==
    {NamedConfig[i].body[j].v :
        <<i, j>> \in {x \in (1..Len(NamedConfig)) \X (1..3) :
                        /\ NamedConfig[x[1]].key = s
                        /\ x[2] <= Len(NamedConfig[x[1]].body)
                        /\ NamedConfig[x[1]].body[x[2]].k = a}}

\* Command line > file > default, each value coerced to the declared type.
Precedence(s, a) ==
    LET x == Declaration(decl[s], a)
    IN  IF CmdlineTokens(s, a) # {}
        THEN Coerce(x.type, Str(argv[Max(CmdlineTokens(s, a))].val))
        ELSE IF FileValues(s, a) # {}
        THEN Coerce(x.type, CHOOSE v \in FileValues(s, a) : TRUE)
        ELSE x.default

\* The command line replaces no subconfig as a whole.
NoSubconfigWideToken ==
    \A i \in 1..Len(argv) :
       ~(argv[i].eq /\ Len(argv[i].name) = 1 /\ argv[i].name[1] \in DOMAIN decl)

\* The command line holds nothing but directory, experiment-name and help tokens.
NoOverrides ==
    \A i \in 1..Len(argv) :
       \/ argv[i] \in {Flag("--h"), Flag("--help")}
       \/ argv[i].eq /\ argv[i].name \in {<<"save_dir">>, <<"experiment_name">>}

\* build has returned and the caller has done nothing since.
Built ==
    pc = "done" /\ last = NoCall

\* The named config file exists and has a top-level key that no declared
\* subconfig carries.
UnknownTopLevelKey ==
    /\ ConfigTokens # {}
    /\ argv[Max(ConfigTokens)].val \in TopFiles
    /\ \E i \in 1..Len(NamedConfig) : NamedConfig[i].key \notin DOMAIN decl

\* What the step assigning the text or file value v to the argument a of s
\* must do: `after` is the position build is left in when it assigns.
CoerceValidateAssign(s, a, v, after) ==
    LET x == Declaration(decl[s], a)
    IN  IF CoerceFails(x.type, v)
        THEN pc' = "failed" /\ err' = "TypeCoercionError" /\ cfgs' = cfgs
        ELSE IF x.validation # "none" /\ ~Validate(x.validation, Coerce(x.type, v))
        THEN pc' = "failed" /\ err' = "ValidationError" /\ cfgs' = cfgs
        ELSE /\ pc' = after
             /\ err' = ""
             /\ Holds(cfgs', s, a, Coerce(x.type, v))

\* The command-line loop stands before a `subconfig.argument=value` token.
AtDottedToken ==
    /\ pc = "override_cmdline"
    /\ todo = <<>>
    /\ cmd_i <= Len(cmd_args)
    /\ cmd_args[cmd_i].eq
    /\ Len(cmd_args[cmd_i].name) = 2

\* An override loop stands before a key/value pair of a file.
AtFilePair ==
    /\ pc \in {"override_file", "override_cmdline"}
    /\ todo # <<>>
    /\ ~Head(todo).isStr

-----------------------------------------------------------------------------
(* Properties *)

\* C1: after a successful build every declared argument holds the value of
\* the last command-line token naming it, else the value the config file
\* gives, else its default (no subconfig-wide token on the command line).
C1_Precedence ==
    (Built /\ NoSubconfigWideToken) =>
        \A s \in DOMAIN decl :
           \A a \in DeclaredArgs(decl[s]) : Holds(cfgs, s, a, Precedence(s, a))

\* C2: after a build whose command line names no config file and carries no
\* override, every declared argument of every declared subconfig holds its
\* declared default.
C2_DefaultsWithoutOverrides ==
    (Built /\ NoOverrides) => AllDefaults(cfgs)

C2_Witness ==
    /\ Built
    /\ NoOverrides
    /\ Len(argv) >= 1
    /\ Holds(cfgs, "training", "lr", Float(1000000))

\* C3: once build has returned, every assignment to an attribute of a
\* subconfig raises and leaves every subconfig as it was.
C3_SubconfigsFrozen ==
    [][(pc = "done" /\ last'.op = "setattr" /\ vars' # vars)
          => (~last'.ok /\ cfgs' = cfgs)]_vars

C3_Witness ==
    /\ pc = "done"
    /\ last.op = "setattr"
    /\ last.key = "frozen"
    /\ ~last.ok
    /\ Frozen(cfgs[last.obj])

\* C4: once build has returned, every assignment to an attribute of the
\* root raises.
C4_RootFrozen ==
    (pc = "done" /\ last.op = "root_setattr") => ~last.ok

\* C5: under attribute assignments, a BaseConfig that is locked stays
\* locked and one that is frozen stays frozen.
C5_ForwardOnly ==
    [][\A c \in DOMAIN cfgs :
          /\ Locked(cfgs[c]) => Locked(cfgs'[c])
          /\ Frozen(cfgs[c]) => Frozen(cfgs'[c])]_vars

\* C6, as stated: while a BaseConfig is locked and not frozen, assigning an
\* attribute it has succeeds, and assigning a name it lacks raises
\* LockedConfigError and changes nothing.
C6_ExistingAssignable ==
    [][(/\ last'.op = "setattr"
        /\ vars' # vars
        /\ Locked(cfgs[last'.obj])
        /\ ~Frozen(cfgs[last'.obj]))
          => IF HasAttr(cfgs[last'.obj], last'.key)
             THEN last'.ok /\ Holds(cfgs', last'.obj, last'.key, last'.val)
             ELSE last'.err = "LockedConfigError" /\ cfgs' = cfgs]_vars

\* C6, amended: while a BaseConfig is locked and not frozen, assigning a
\* name of its reserved_attributes list other than "frozen" raises
\* ReservedNameError; assigning any other attribute it has succeeds and adds
\* no name; assigning a name it lacks raises LockedConfigError; a raising
\* assignment changes nothing.
C6_ExistingUnreservedAssignable ==
    [][(/\ last'.op = "setattr"
        /\ vars' # vars
        /\ Locked(cfgs[last'.obj])
        /\ ~Frozen(cfgs[last'.obj]))
          => IF InReserved(cfgs[last'.obj], last'.key) /\ last'.key # "frozen"
             THEN last'.err = "ReservedNameError" /\ cfgs' = cfgs
             ELSE IF HasAttr(cfgs[last'.obj], last'.key)
             THEN /\ last'.ok
                  /\ Holds(cfgs', last'.obj, last'.key, last'.val)
                  /\ Dir(cfgs'[last'.obj]) = Dir(cfgs[last'.obj])
                  /\ \A k \in DOMAIN cfgs[last'.obj].d :
                        k # last'.key =>
                           cfgs'[last'.obj].d[k] = cfgs[last'.obj].d[k]
             ELSE last'.err = "LockedConfigError" /\ cfgs' = cfgs]_vars

C6_Witness ==
    /\ last.op = "setattr"
    /\ last.err = "LockedConfigError"
    /\ last.key = "new_attr"
    /\ Locked(cfgs[last.obj])
    /\ ~Frozen(cfgs[last.obj])
    /\ "model_type" \in DOMAIN cfgs[last.obj].arg_dict

\* C7: add_argument with a reserved name raises.
C7_ReservedNamesRejected ==
    (/\ last.op = "add_argument"
     /\ last.key \in {"arg_dict", "help_dict", "locked", "frozen", "add_argument",
                      "to_dict"})
        => ~last.ok

\* C8: a `subconfig.argument=value` token, or a file's key/value pair, for
\* a declared argument either fails build with TypeCoercionError (the value
\* does not coerce) or with ValidationError (the predicate rejects the
\* coerced value), the subconfigs keeping their values, or else assigns the
\* coerced value.
C8_CoerceValidateOrFail ==
    [][/\ (/\ AtDottedToken
           /\ vars' # vars
           /\ cmd_args[cmd_i].name[1] \in DOMAIN decl
           /\ cmd_args[cmd_i].name[2] \in DeclaredArgs(decl[cmd_args[cmd_i].name[1]]))
             => CoerceValidateAssign(cmd_args[cmd_i].name[1], cmd_args[cmd_i].name[2],
                                     Str(cmd_args[cmd_i].val), pc)
       /\ (/\ AtFilePair
           /\ vars' # vars
           /\ Head(todo).subcfg_name \in DOMAIN decl
           /\ Head(todo).arg_name \in DeclaredArgs(decl[Head(todo).subcfg_name]))
             => CoerceValidateAssign(Head(todo).subcfg_name, Head(todo).arg_name,
                                     Head(todo).val, pc)]_vars

C8_Witness ==
    /\ pc = "failed"
    /\ err = "ValidationError"
    /\ cmd_i = 2
    /\ cmd_args[cmd_i] = Tok(<<"training", "lr">>, "1.0000001e-2")
    /\ Holds(cfgs, "training", "lr", Float(100000))

\* C9: when the named config file has a top-level key that is no declared
\* subconfig, build goes no further than loading it: it fails with
\* UnknownSubconfigError and every subconfig holds its defaults.
C9_UnknownSubconfigRejected ==
    (UnknownTopLevelKey /\ pc \notin {"start", "set_defaults", "display_help", "load_file"})
        => (pc = "failed" /\ err = "UnknownSubconfigError" /\ AllDefaults(cfgs))

C9_Witness ==
    /\ pc = "failed"
    /\ err = "UnknownSubconfigError"
    /\ UnknownTopLevelKey
    /\ Len(argv) = 2
    /\ AllDefaults(cfgs)

\* C10: a token or file pair naming an argument that the subconfig's
\* arg_dict lacks fails build with UnknownArgumentError, and a token whose
\* subconfig part is no declared subconfig fails build with the error for an
\* unrecognized subconfig.
C10_UnknownNamesRejected ==
    [][/\ (/\ AtDottedToken
           /\ vars' # vars
           /\ cmd_args[cmd_i].name[1] \in DOMAIN cfgs
           /\ cmd_args[cmd_i].name[2] \notin DOMAIN cfgs[cmd_args[cmd_i].name[1]].arg_dict)
             => (pc' = "failed" /\ err' = "UnknownArgumentError")
       /\ (/\ AtFilePair
           /\ vars' # vars
           /\ Head(todo).subcfg_name \in DOMAIN cfgs
           /\ Head(todo).arg_name \notin DOMAIN cfgs[Head(todo).subcfg_name].arg_dict)
             => (pc' = "failed" /\ err' = "UnknownArgumentError")
       /\ (/\ AtDottedToken
           /\ vars' # vars
           /\ cmd_args[cmd_i].name[1] \notin DOMAIN decl)
             => (/\ pc' = "failed"
                 /\ err' \in {"InvalidArgumentNameError", "UnknownSubconfigError"})]_vars

-----------------------------------------------------------------------------
(* C11: subconfig-wide tokens *)

\* The tokens of the command line that say `s=path` for a declared subconfig.
WideTokens ==
    {i \in 1..Len(argv) :
        argv[i].eq /\ Len(argv[i].name) = 1 /\ argv[i].name[1] \in DOMAIN decl}

\* The values the subconfig file `path` gives for the argument a.
BodyValues(path, a) ==
    {FileBody(path)[j].v : j \in {x \in 1..Len(FileBody(path)) : FileBody(path)[x].k = a}}

\* What the argument a of the subconfig holds once the subconfig's contents
\* are those of the file `path`: the file's value coerced to the declared
\* type, or the default when the file does not name a.
ReplacedBy(cls, path, a) ==
    IF BodyValues(path, a) # {}
    THEN Coerce(Declaration(cls, a).type, CHOOSE v \in BodyValues(path, a) : TRUE)
    ELSE Declaration(cls, a).default

\* C11: after a build whose command line has a token `s=path` for a declared
\* subconfig s, with no later token naming s, every argument of s that the
\* file names holds the file's coerced value and every argument of s the file
\* does not name holds its default.
C11_SubconfigWideReplaces ==
    Built =>
       \A i \in WideTokens :
          (\A j \in (i + 1)..Len(argv) : argv[j].name[1] # argv[i].name[1])
             => \A a \in DeclaredArgs(decl[argv[i].name[1]]) :
                   Holds(cfgs, argv[i].name[1], a,
                         ReplacedBy(decl[argv[i].name[1]], argv[i].val, a))

-----------------------------------------------------------------------------
(* C12: file indirection *)

\* A config as its author would have written it with every subconfig's
\* object inline instead of the path of the file holding that object.
InlineForm(config) ==
    [i \in 1..Len(config) |->
        IF config[i].isStr THEN Inline(config[i].key, FileBody(config[i].path))
        ELSE config[i]]

\* The config file `path` gives some subconfig by the path of an existing file.
GivesByPath(path) ==
    /\ path \in TopFiles
    /\ \E i \in 1..Len(FileTop(path)) : FileTop(path)[i].isStr
    /\ \A i \in 1..Len(FileTop(path)) :
          FileTop(path)[i].isStr => FileTop(path)[i].path \in SubFiles

\* The config files that hold inline what `path` gives by path.
InlineTwins(path) ==
    {p \in TopFiles : FileTop(p) = InlineForm(FileTop(path))}

\* The command line with every `config=path` token whose file gives
\* subconfigs by path pointing at an inline twin of that file instead.
InlineArgv ==
    [i \in 1..Len(argv) |->
        IF /\ argv[i].eq
           /\ argv[i].name = <<"config">>
           /\ GivesByPath(argv[i].val)
           /\ InlineTwins(argv[i].val) # {}
        THEN Tok(<<"config">>, CHOOSE p \in InlineTwins(argv[i].val) : TRUE)
        ELSE argv[i]]

\* C12: a build whose config file gives subconfigs by the path of another
\* file settles exactly as the build does whose config file holds the same
\* objects inline: the same error or none, the same subconfigs, the same
\* values.
C12_IndirectionTransparent ==
    (Settled /\ InlineArgv # argv) => Resolved = Resolve(decl, InlineArgv)

\* A build has taken an argument's value from a file reached by path.
C12_Witness ==
    /\ pc = "persist"
    /\ InlineArgv # argv
    /\ ConfigTokens # {}
    /\ GivesByPath(argv[Max(ConfigTokens)].val)
    /\ Holds(cfgs, "training", "lr", Float(100000))

-----------------------------------------------------------------------------
(* C13: the place of the checkpoint's config among the overrides *)

\* A token `s.a=value` whose s the root does not declare.
NamesUndeclared(tok) ==
    tok.eq /\ Len(tok.name) = 2 /\ tok.name[1] \notin DOMAIN decl

\* The command line without such tokens.
DeclaredOnly ==
    LET Keep(tok) == ~NamesUndeclared(tok)
    IN  SelectSeq(argv, Keep)

\* The tokens of the command line that name an argument of a subconfig the
\* checkpoint's config brings in.
CheckpointTokens ==
    {i \in 1..Len(argv) :
        /\ NamesUndeclared(argv[i])
        /\ InSeq(argv[i].name[1], Resolve(decl, DeclaredOnly).subconfigs)}

\* C13: in evaluation mode, when the command line is valid but for tokens
\* naming arguments of checkpoint-derived subconfigs, build succeeds and
\* each such argument holds the value of its last token, not the value of
\* the checkpoint's config: the checkpoint's config is applied after the
\* config file and before the command line.
C13_CmdlineOverridesCheckpoint ==
    (/\ Settled
     /\ Resolve(decl, DeclaredOnly).err = ""
     /\ Resolve(decl, DeclaredOnly).eval_mode
     /\ CheckpointTokens # {}
     /\ \A i \in 1..Len(argv) : NamesUndeclared(argv[i]) => i \in CheckpointTokens)
       => /\ pc = "persist"
          /\ \A i \in CheckpointTokens :
                (\A j \in (i + 1)..Len(argv) : argv[j].name # argv[i].name)
                   => Holds(cfgs, argv[i].name[1], argv[i].name[2], Str(argv[i].val))

-----------------------------------------------------------------------------
(* C14: the root's export *)

\* C14: once build has returned, the root's export has an entry for every
\* attached subconfig, declared or brought in by the checkpoint's config,
\* and that entry equals the subconfig's own export: every argument with its
\* current value.
C14_RootExportComplete ==
    Built =>
       \A i \in 1..Len(subconfigs) :
          /\ subconfigs[i] \in DOMAIN RootToDict(cfgs, subconfigs)
          /\ ~ToDictRaises(cfgs[subconfigs[i]])
          /\ RootToDict(cfgs, subconfigs)[subconfigs[i]] = ToDict(cfgs[subconfigs[i]])

-----------------------------------------------------------------------------
(* C15: persistence *)

\* Every attached subconfig is frozen.
AllFrozen ==
    \A i \in 1..Len(subconfigs) : Frozen(cfgs[subconfigs[i]])

\* A step in which build calls the allocator.
AllocatorCalled ==
    pc = "persist" /\ ~dont_save /\ pc' # pc

\* A step that creates a directory or writes config.json does so in build's
\* persistence step, with persistence not suppressed, no override step
\* having raised and every subconfig frozen; config.json holds the root's
\* export of that moment, and save_dir names the directory just allocated.
PersistsAtTheEnd ==
    (disk' # disk \/ saved' # saved)
       => /\ ~dont_save
          /\ pc = "persist"
          /\ err = ""
          /\ AllFrozen
          /\ saved'.written
          /\ saved'.content = RootToDict(cfgs, subconfigs)
          /\ \E id \in 1..(MaxRuns + 1) :
                /\ disk' = disk \cup {RunDirEntry(id)}
                /\ RunDirEntry(id) \notin disk
                /\ saved'.dir = RunDir(save_dir, experiment_name, id)
          /\ "save_dir" \in DOMAIN rootd'
          /\ rootd'["save_dir"] = saved'.dir

\* A build that returns with persistence suppressed leaves save_dir None.
SuppressedLeavesNone ==
    (dont_save /\ pc # "done" /\ pc' = "done")
       => ("save_dir" \in DOMAIN rootd' /\ rootd'["save_dir"] = RVal(None))

\* C15, as the claim states it: directories are created and config.json is
\* written only at the end of a fully successful resolution; the allocator
\* is never called in a build that has persistence suppressed or that
\* fails; and save_dir is None when persistence is suppressed or build fails.
C15_PersistOnlyAfterSuccess ==
    [][/\ PersistsAtTheEnd
       /\ SuppressedLeavesNone
       /\ AllocatorCalled => pc' # "failed"
       /\ (pc # "failed" /\ pc' = "failed")
             => ("save_dir" \in DOMAIN rootd' /\ rootd'["save_dir"] = RVal(None))]_vars

\* C15, amended: as above, except that a failed build leaves save_dir unset
\* and config.json unwritten, and that the allocator, called only once every
\* subconfig is frozen, may itself be the step that fails.
C15_PersistOnlyAfterSuccessUnset ==
    [][/\ PersistsAtTheEnd
       /\ SuppressedLeavesNone
       /\ AllocatorCalled => (err = "" /\ AllFrozen)
       /\ (pc # "failed" /\ pc' = "failed")
             => ("save_dir" \notin DOMAIN rootd' /\ ~saved'.written /\ disk' = disk)]_vars

\* build has just allocated a run directory below an experiment directory
\* that held a run already, and has written config.json there.
C15_Witness ==
    /\ pc = "freeze_root"
    /\ saved.written
    /\ saved.dir = RunDir(save_dir, experiment_name, 2)
    /\ Holds(cfgs, "training", "lr", Float(10))
    /\ rootd["save_dir"] = saved.dir

-----------------------------------------------------------------------------
(* C16: help tokens *)

\* The help tokens, and the command line without them.
IsHelp(tok) ==
    tok = Flag("--h") \/ tok = Flag("--help")

WithoutHelp ==
    LET Keep(tok) == ~IsHelp(tok)
    IN  SelectSeq(argv, Keep)

\* C16: when the command line holds help tokens and is valid without them,
\* build prints the usage listing and then completes with the error-free
\* result, subconfigs and values it reaches on the command line without the
\* help tokens.
C16_HelpThenNormalBuild ==
    (/\ Settled
     /\ WithoutHelp # argv
     /\ Resolve(decl, WithoutHelp).err = "")
       => /\ printed
          /\ pc = "persist"
          /\ Resolved = Resolve(decl, WithoutHelp)

-----------------------------------------------------------------------------
(* C17: the base save directory *)

\* The tokens of the command line that say `save_dir=directory`.
DirTokens ==
    {i \in 1..Len(argv) : argv[i].eq /\ argv[i].name = <<"save_dir">>}

\* C17: once build has finalized the base save directory, on a command line
\* where only directory tokens hold the text "save_dir": the directory is
\* the one the last directory token names, unchanged, when there is such a
\* token; without one it is the evaluation-results directory in evaluation
\* mode and the default directory otherwise.
C17_RedirectOnlyWithoutToken ==
    (/\ pc \in {"freeze", "persist", "freeze_root", "done"}
     /\ \A i \in 1..Len(argv) : TokContains(argv[i], "save_dir") => i \in DirTokens)
       => save_dir = IF DirTokens # {} THEN argv[Max(DirTokens)].val
                     ELSE IF eval_mode THEN "eval_results"
                     ELSE "results"

-----------------------------------------------------------------------------
(* C18: the run-id allocator *)

\* The run ids among the children of the experiment directory.
RunIds(dirs) ==
    {e.name : e \in {x \in dirs : x.numeric /\ x.child}}

\* C18: every call of the allocator returns, and creates the run directory
\* of, the greatest run id among the children of the experiment directory
\* plus one, or 1 when no child is a run directory, other children or not.
C18_NextRunId ==
    [][(pc = "saver" /\ vars' # vars)
          => /\ last'.ok
             /\ last'.val.n = (IF RunIds(disk) = {} THEN 1 ELSE Max(RunIds(disk)) + 1)
             /\ disk' = disk \cup {RunDirEntry(last'.val.n)}]_vars

-----------------------------------------------------------------------------
(* C19: instances are independent *)

\* The step is a call on the BaseConfig instance bound to some name.
CallOnInstance ==
    last'.op \in {"new", "setattr", "add_argument"} /\ vars' # vars

\* The step is an assignment on the root.
CallOnRoot ==
    last'.op = "root_setattr" /\ vars' # vars

\* C19: constructing, assigning on, declaring on, locking or freezing one
\* instance changes no flag, value or declaration of any other instance,
\* subconfig or root; and a new instance starts unlocked and unfrozen with
\* no declarations, whatever the state of the instances made before it.
C19_InstancesIndependent ==
    [][/\ CallOnInstance
          => /\ \A n \in DOMAIN cfgs :
                   n # last'.obj => (n \in DOMAIN cfgs' /\ cfgs'[n] = cfgs[n])
             /\ rootd' = rootd
       /\ CallOnRoot => cfgs' = cfgs
       /\ (CallOnInstance /\ last'.op = "new")
             => /\ last'.obj \in DOMAIN cfgs'
                /\ cfgs'[last'.obj] = NewBaseConfig
                /\ ~Locked(cfgs'[last'.obj])
                /\ ~Frozen(cfgs'[last'.obj])]_vars

\* One instance is frozen and holds a declared argument while another
\* instance, made after the first was locked, is still unlocked, holds its
\* own value under the same name, and the root is frozen as well.
C19_Witness ==
    /\ DOMAIN cfgs = TwoNames
    /\ Frozen(cfgs["a"])
    /\ Locked(cfgs["a"])
    /\ Holds(cfgs, "a", "model_type", Str("retinanet"))
    /\ ~Locked(cfgs["b"])
    /\ ~Frozen(cfgs["b"])
    /\ Holds(cfgs, "b", "model_type", Str("patch"))
    /\ "frozen" \in DOMAIN rootd
    /\ last.op = "setattr"
    /\ last.obj = "b"
    /\ last.ok

-----------------------------------------------------------------------------
(* C20: declarations *)

\* The default of the declaration is neither the none sentinel nor an
\* instance of the declared type.
DefaultOfWrongType(a) ==
    NotNoneSentinel(a.default) /\ ~IsInstance(a.default, a.type)

\* The declaration's validation rejects its default, which is not the none
\* sentinel.
DefaultRejected(a) ==
    /\ NotNoneSentinel(a.default)
    /\ a.validation # "none"
    /\ ~Validate(a.validation, a.default)

\* C20: add_argument fails (TypeConflict) when the default is neither the
\* none sentinel nor an instance of the declared type, and fails
\* (ValidationConflict, when the type fits) when the validation rejects a
\* default that is not the sentinel; a call that fails leaves the values,
\* the descriptor map and the help map unchanged; a call that succeeds
\* leaves the name holding the default, the descriptor map holding the
\* declared type and validation under the name, and the help map holding
\* the help text.
C20_DeclarationChecked ==
    [][\A a \in UserArgs :
          (UserAddArgument("c", a) /\ vars' # vars)
             => /\ DefaultOfWrongType(a)
                   => (~last'.ok /\ last'.err = "TypeConflict" /\ cfgs' = cfgs)
                /\ DefaultRejected(a) => (~last'.ok /\ cfgs' = cfgs)
                /\ (DefaultRejected(a) /\ ~DefaultOfWrongType(a))
                      => last'.err = "ValidationConflict"
                /\ ~last'.ok => cfgs' = cfgs
                /\ last'.ok
                      => /\ Holds(cfgs', "c", a.name, a.default)
                         /\ a.name \in DOMAIN cfgs'["c"].arg_dict
                         /\ cfgs'["c"].arg_dict[a.name] = Descriptor(a.type, a.validation)
                         /\ a.name \in DOMAIN cfgs'["c"].help_dict
                         /\ cfgs'["c"].help_dict[a.name] = a.help]_vars

\* ---------------------------------------------------------------------
\* C21: export is a pure read.  A to_dict call, on a subconfig or on the
\* root, changes no value and no locked or frozen flag, and a call that
\* directly follows another call on the same object returns an equal mapping.
C21_ExportPureRead ==
    [][(last'.op = "to_dict" /\ exported'.calls # exported.calls)
        => /\ cfgs' = cfgs
           /\ rootd' = rootd
           /\ subconfigs' = subconfigs
           /\ (last.op = "to_dict" /\ exported.obj = exported'.obj)
                 => /\ exported'.raised = exported.raised
                    /\ exported'.dict = exported.dict]_vars

\* Two consecutive exports of the root of a build that a token has overridden.
C21_Witness ==
    /\ exported.calls = 2
    /\ exported.obj = "root"
    /\ last.op = "to_dict"
    /\ ~exported.raised
    /\ exported.dict = RootToDict(cfgs, subconfigs)
    /\ ~AllDefaults(cfgs)

\* ---------------------------------------------------------------------
\* C22: an error is fatal to build and leaves no partial configuration.
\* When a step of build has raised, no declared argument of a subconfig of
\* the root holds a value other than its default: the overrides applied
\* before the failure are not retained.
C22_NoPartialConfiguration ==
    (pc = "failed" /\ last = NoCall)
       => \A s \in DOMAIN decl \cap DOMAIN cfgs :
             \A a \in DeclaredArgs(decl[s]) \cap DOMAIN cfgs[s].d :
                cfgs[s].d[a] = Declaration(decl[s], a).default

\* ---------------------------------------------------------------------
\* C23: every subconfig attached to the root when build completes, the
\* ones added from a checkpoint included, has gone through locked before
\* frozen: at the end each has locked true and frozen true.
C23_LockedThenFrozen ==
    Built => \A i \in 1..Len(subconfigs) :
                /\ subconfigs[i] \in DOMAIN cfgs
                /\ Locked(cfgs[subconfigs[i]])
                /\ Frozen(cfgs[subconfigs[i]])

\* ---------------------------------------------------------------------
\* C24: in every interleaving of two processes that allocate a run
\* directory under the same base directory and experiment name, no two
\* allocations return the same run directory: of two processes that have
\* computed the same run id and have both ended, one has created the
\* directory and the other has raised an error.
C24_NoSharedRunDirectory ==
    \A p \in DOMAIN procs : \A q \in (DOMAIN procs) \ {p} :
       /\ (procs[p].pc = "returned" /\ procs[q].pc = "returned")
             => procs[p].run_id # procs[q].run_id
       /\ (/\ procs[p].pc \in {"returned", "raised"}
           /\ procs[q].pc \in {"returned", "raised"}
           /\ procs[p].run_id = procs[q].run_id
           /\ procs[p].run_id > 0)
             => \/ procs[p].pc = "returned" /\ procs[q].pc = "raised" /\ procs[q].err # ""
                \/ procs[q].pc = "returned" /\ procs[p].pc = "raised" /\ procs[p].err # ""

\* Both processes have computed the run id after the runs on disk; one has
\* the directory and the other has raised FileExistsError.
C24_Witness ==
    /\ pc = "race"
    /\ procs["p"].pc = "returned"
    /\ procs["q"].pc = "raised"
    /\ procs["q"].err = "FileExistsError"
    /\ procs["p"].run_id = procs["q"].run_id
    /\ procs["p"].run_id > 1
    /\ RunDirEntry(procs["p"].run_id) \in disk

\* ---------------------------------------------------------------------
\* C25: no override token is silently dropped.  A token `s.a=value` that
\* names a declared argument is not consumed by the scan for the directory,
\* experiment-name and config-path tokens: past the scan it is still in the
\* list the override loop reads, and a build that returns has applied it.
DeclaredTokens ==
    {i \in 1..Len(argv) :
        /\ argv[i].eq
        /\ Len(argv[i].name) = 2
        /\ argv[i].name[1] \in DOMAIN decl
        /\ argv[i].name[2] \in DeclaredArgs(decl[argv[i].name[1]])}

C25_NoTokenDropped ==
    /\ pc # "start" => \A i \in DeclaredTokens : InSeq(argv[i], cmd_args)
    /\ (Built /\ NoSubconfigWideToken)
          => \A i \in DeclaredTokens :
                Holds(cfgs, argv[i].name[1], argv[i].name[2],
                      Precedence(argv[i].name[1], argv[i].name[2]))

\* ---------------------------------------------------------------------
\* C26: after a successful build that is not in eval mode, every declared
\* argument whose default is not the none sentinel holds a value of its
\* declared type that satisfies its validation predicate, whatever the mix
\* of file and command-line overrides.
C26_TypedAndValid ==
    (Built /\ ~eval_mode) =>
        \A s \in DOMAIN decl :
           \A a \in DeclaredArgs(decl[s]) :
              NotNoneSentinel(Declaration(decl[s], a).default)
                 => /\ s \in DOMAIN cfgs
                    /\ a \in DOMAIN cfgs[s].d
                    /\ IsInstance(cfgs[s].d[a], Declaration(decl[s], a).type)
                    /\ Declaration(decl[s], a).validation # "none"
                          => /\ ~ValidationRaises(Declaration(decl[s], a).validation,
                                                  cfgs[s].d[a])
                             /\ Validate(Declaration(decl[s], a).validation,
                                         cfgs[s].d[a])

\* A build that a config file and a dotted token have both overridden.
C26_Witness ==
    /\ Built
    /\ ~eval_mode
    /\ ConfigTokens # {}
    /\ DeclaredTokens # {}
    /\ \E s \in DOMAIN decl :
          \E a \in DeclaredArgs(decl[s]) :
             /\ CmdlineTokens(s, a) = {}
             /\ FileValues(s, a) # {}
             /\ ~Holds(cfgs, s, a, Declaration(decl[s], a).default)
    /\ \E i \in DeclaredTokens :
          /\ InSeq(argv[i], cmd_args)
          /\ Holds(cfgs, argv[i].name[1], argv[i].name[2],
                   Coerce(Declaration(decl[argv[i].name[1]], argv[i].name[2]).type,
                          Str(argv[i].val)))
          /\ ~Holds(cfgs, argv[i].name[1], argv[i].name[2],
                    Declaration(decl[argv[i].name[1]], argv[i].name[2]).default)

====
